---- MODULE Spec2Model ----
(***************************************************************************)
(* ClipRack: URL classification, the embed/category collections of the     *)
(* clips screen (app/(tabs)/embeds.tsx), the polled shared-content hook     *)
(* (hooks/useSharedContent.ts), the shared storage wrapper                  *)
(* (lib/sharedStorage.ts) and the share extension (app/share-extension.tsx).*)
(*                                                                         *)
(* A URL string is a sequence of tokens.  The tokens are the single         *)
(* characters the regular expressions of the source treat specially         *)
(* ("/", "?", "&", "#", "@") and words that contain none of them, so that   *)
(* a character class such as [^\/\?]+ matches a maximal run of tokens.      *)
(***************************************************************************)
EXTENDS Integers, Sequences, FiniteSets, TLC

\* ------------------------------------------------------------------------
\* Bounds
\* ------------------------------------------------------------------------
MaxClock == 1
MaxShares == 2
MaxFaults == 1
MaxCategories == 1

\* ------------------------------------------------------------------------
\* Strings as token sequences
\* ------------------------------------------------------------------------
Undefined == <<>>

At(url, i) == IF i >= 1 /\ i <= Len(url) THEN url[i] ELSE ""

Sub(url, i, j) == IF j > i THEN SubSeq(url, i, j - 1) ELSE <<>>

\* end (exclusive) of the maximal run of tokens from i that are not in excl:
\* a character class [^...]+ matched greedily
RECURSIVE Run(_, _, _)
Run(url, i, excl) ==
  IF i > Len(url) \/ url[i] \in excl THEN i ELSE Run(url, i + 1, excl)

\* https?:\/\/(?:www\.)?<host>   at position i; the position after it, or 0
HostEnd(url, i, host) ==
  IF At(url, i) \in {"https:", "http:"} /\ At(url, i + 1) = "/" /\ At(url, i + 2) = "/"
  THEN IF At(url, i + 3) = "www." /\ At(url, i + 4) = host THEN i + 5
       ELSE IF At(url, i + 3) = host THEN i + 4
       ELSE 0
  ELSE 0

\* url.includes(needle)
Includes(url, needle) ==
  \E i \in 1..Len(url) :
    /\ i + Len(needle) - 1 <= Len(url)
    /\ SubSeq(url, i, i + Len(needle) - 1) = needle

NoMatch == [ok |-> FALSE]

\* url.match(regex): the leftmost match, matches[i] being the match that
\* starts at position i
FirstMatch(matches) ==
  IF \E i \in DOMAIN matches : matches[i].ok
  THEN matches[CHOOSE k \in DOMAIN matches :
                 /\ matches[k].ok
                 /\ \A m \in 1..(k - 1) : ~matches[m].ok]
  ELSE NoMatch

\* ------------------------------------------------------------------------
\* parseInstagramUrl
\* ------------------------------------------------------------------------
\* \/(p|reel)\/([^\/\?]+)  at position h
\* instagramRegex without its (p|reel) capture: every match counts as a post
InstagramTailAsPost(url, h) ==
  LET e == Run(url, h + 3, {"/", "?"})
  IN  IF At(url, h) = "/" /\ At(url, h + 1) \in {"p", "reel"} /\ At(url, h + 2) = "/"
         /\ e > h + 3
      THEN [ok |-> TRUE, contentType |-> "p", postId |-> Sub(url, h + 3, e)]
      ELSE NoMatch

InstagramTail(url, h) ==
  LET e == Run(url, h + 3, {"/", "?"})
  IN  IF At(url, h) = "/" /\ At(url, h + 1) \in {"p", "reel"} /\ At(url, h + 2) = "/"
         /\ e > h + 3
      THEN [ok |-> TRUE, contentType |-> At(url, h + 1), postId |-> Sub(url, h + 3, e)]
      ELSE NoMatch

InstagramMatchAt(url, i) ==
  LET h == HostEnd(url, i, "instagram.com")
      r == Run(url, h + 1, {"/"})
  IN  IF h = 0 THEN NoMatch
      ELSE IF At(url, h) = "/" /\ r > h + 1 /\ InstagramTail(url, r).ok
           THEN InstagramTail(url, r)      \* with the optional (?:\/[^\/]+) segment
           ELSE InstagramTail(url, h)      \* without it

\* /instagram\.com\/([^\/]+)\/(p|reel)\//  at position i
InstagramUserAt(url, i) ==
  LET r == Run(url, i + 2, {"/"})
  IN  IF At(url, i) = "instagram.com" /\ At(url, i + 1) = "/" /\ r > i + 2
         /\ At(url, r) = "/" /\ At(url, r + 1) \in {"p", "reel"} /\ At(url, r + 2) = "/"
      THEN [ok |-> TRUE, username |-> Sub(url, i + 2, r)]
      ELSE NoMatch

instagramRegex(url) == FirstMatch([i \in 1..Len(url) |-> InstagramMatchAt(url, i)])

usernameRegex(url) == FirstMatch([i \in 1..Len(url) |-> InstagramUserAt(url, i)])

parseInstagramUrl(url) ==
  LET match == instagramRegex(url)
      usernameMatch == usernameRegex(url)
  IN  IF match.ok
      THEN [ok |-> TRUE, postId |-> match.postId,
            username |-> IF usernameMatch.ok THEN usernameMatch.username ELSE Undefined,
            contentType |-> match.contentType]
      ELSE NoMatch

\* ------------------------------------------------------------------------
\* parseYouTubeUrl
\* ------------------------------------------------------------------------
YouTubeIdStart(url, i) ==
  LET h == HostEnd(url, i, "youtube.com")
  IN  IF h > 0 /\ At(url, h) = "/" /\ At(url, h + 1) = "watch" /\ At(url, h + 2) = "?"
         /\ At(url, h + 3) = "v="
      THEN h + 4
      ELSE IF h > 0 /\ At(url, h) = "/" /\ At(url, h + 1) = "shorts" /\ At(url, h + 2) = "/"
      THEN h + 3
      ELSE IF At(url, i) \in {"https:", "http:"} /\ At(url, i + 1) = "/" /\ At(url, i + 2) = "/"
              /\ At(url, i + 3) = "youtu.be" /\ At(url, i + 4) = "/"
      THEN i + 5
      ELSE 0

\* youtubeRegex with an id group that stops at "&" only
YouTubeMatchAtStopsAtAmpersand(url, i) ==
  LET s == YouTubeIdStart(url, i)
      e == Run(url, s, {"&"})
  IN  IF s > 0 /\ e > s THEN [ok |-> TRUE, videoId |-> Sub(url, s, e)] ELSE NoMatch

YouTubeMatchAt(url, i) ==
  LET s == YouTubeIdStart(url, i)
      e == Run(url, s, {"&", "\n", "?", "#"})
  IN  IF s > 0 /\ e > s THEN [ok |-> TRUE, videoId |-> Sub(url, s, e)] ELSE NoMatch

youtubeRegex(url) == FirstMatch([i \in 1..Len(url) |-> YouTubeMatchAt(url, i)])

parseYouTubeUrl(url) == youtubeRegex(url)

\* ------------------------------------------------------------------------
\* parseTikTokUrl
\* ------------------------------------------------------------------------
FullTikTokMatchAt(url, i) ==
  LET h == HostEnd(url, i, "tiktok.com")
      r == Run(url, h + 2, {"/"})
      e == Run(url, r + 3, {"/", "?"})
  IN  IF h > 0 /\ At(url, h) = "/" /\ At(url, h + 1) = "@" /\ r > h + 2
         /\ At(url, r) = "/" /\ At(url, r + 1) = "video" /\ At(url, r + 2) = "/" /\ e > r + 3
      THEN [ok |-> TRUE, username |-> Sub(url, h + 2, r), postId |-> Sub(url, r + 3, e)]
      ELSE NoMatch

ShortTikTokMatchAt(url, i) ==
  LET e == Run(url, i + 6, {"/", "?"})
  IN  IF At(url, i) \in {"https:", "http:"} /\ At(url, i + 1) = "/" /\ At(url, i + 2) = "/"
         /\ At(url, i + 3) = "vt." /\ At(url, i + 4) = "tiktok.com" /\ At(url, i + 5) = "/"
         /\ e > i + 6
      THEN [ok |-> TRUE, shortId |-> Sub(url, i + 6, e)]
      ELSE NoMatch

fullTiktokRegex(url) == FirstMatch([i \in 1..Len(url) |-> FullTikTokMatchAt(url, i)])

shortTiktokRegex(url) == FirstMatch([i \in 1..Len(url) |-> ShortTikTokMatchAt(url, i)])

\* parseTikTokUrl testing the short-form pattern before the full-form one
parseTikTokUrlShortFirst(url) ==
  LET fullMatch == fullTiktokRegex(url)
      shortMatch == shortTiktokRegex(url)
  IN  IF shortMatch.ok
      THEN [ok |-> TRUE, postId |-> shortMatch.shortId, username |-> Undefined,
            isShortUrl |-> "true"]
      ELSE IF fullMatch.ok
      THEN [ok |-> TRUE, postId |-> fullMatch.postId, username |-> fullMatch.username,
            isShortUrl |-> "undefined"]
      ELSE NoMatch

parseTikTokUrl(url) ==
  LET fullMatch == fullTiktokRegex(url)
      shortMatch == shortTiktokRegex(url)
  IN  IF fullMatch.ok
      THEN [ok |-> TRUE, postId |-> fullMatch.postId, username |-> fullMatch.username,
            isShortUrl |-> "undefined"]
      ELSE IF shortMatch.ok
      THEN [ok |-> TRUE, postId |-> shortMatch.shortId, username |-> Undefined,
            isShortUrl |-> "true"]
      ELSE NoMatch

\* ------------------------------------------------------------------------
\* createEmbedFromUrl (app/(tabs)/embeds.tsx and app/share-extension.tsx)
\* ------------------------------------------------------------------------
Null == [type |-> "null"]

createEmbedFromUrl(url, t) ==
  LET instagramData == parseInstagramUrl(url)
      youtubeData == parseYouTubeUrl(url)
      tiktokData == parseTikTokUrl(url)
  IN  IF instagramData.ok
      THEN [id |-> <<"instagram", instagramData.postId, t>>,
            type |-> "instagram",
            title |-> IF instagramData.contentType = "reel" THEN "Instagram Reel"
                      ELSE "Instagram Post",
            subtitle |-> IF instagramData.username # Undefined
                         THEN <<"@">> \o instagramData.username
                         ELSE instagramData.postId,
            url |-> IF instagramData.contentType = "reel"
                    THEN <<"https:", "/", "/", "www.", "instagram.com", "/", "p", "/">>
                         \o instagramData.postId \o <<"/">>
                    ELSE url,
            videoId |-> Undefined,
            postId |-> instagramData.postId,
            username |-> instagramData.username,
            isShortUrl |-> "undefined",
            createdAt |-> t]
      ELSE IF youtubeData.ok
      THEN [id |-> <<"youtube", youtubeData.videoId, t>>,
            type |-> "youtube",
            title |-> IF Includes(url, <<"/", "shorts", "/">>) THEN "YouTube Short"
                      ELSE "YouTube Video",
            subtitle |-> <<"Open ">> \o youtubeData.videoId,
            url |-> url,
            videoId |-> youtubeData.videoId,
            postId |-> Undefined,
            username |-> Undefined,
            isShortUrl |-> "undefined",
            createdAt |-> t]
      ELSE IF tiktokData.ok
      THEN [id |-> <<"tiktok", tiktokData.postId, t>>,
            type |-> "tiktok",
            title |-> "TikTok Video",
            subtitle |-> IF tiktokData.username # Undefined
                         THEN <<"@">> \o tiktokData.username
                         ELSE IF tiktokData.isShortUrl = "true" THEN <<"Short URL">>
                         ELSE tiktokData.postId,
            url |-> url,
            videoId |-> Undefined,
            postId |-> tiktokData.postId,
            username |-> tiktokData.username,
            isShortUrl |-> tiktokData.isShortUrl,
            createdAt |-> t]
      ELSE Null


\* the requests createEmbedFromUrl makes to resolve its url: the function of
\* app/(tabs)/embeds.tsx and of app/share-extension.tsx calls no resolver
createEmbedRequests(url) == <<>>

\* ------------------------------------------------------------------------
\* Program constants (src/embeds/constants.ts)
\* ------------------------------------------------------------------------
DYNAMIC_EMBEDS == "cliprack_dynamic_embeds"
CATEGORIES == "cliprack_categories"
CATEGORY_COLORS == 18

DEFAULT_CATEGORIES ==
  << [id |-> <<"favorites">>,   name |-> "Favorites",   color |-> 0, createdAt |-> 0],
     [id |-> <<"funny">>,       name |-> "Funny",       color |-> 1, createdAt |-> 0],
     [id |-> <<"educational">>, name |-> "Educational", color |-> 2, createdAt |-> 0],
     [id |-> <<"music">>,       name |-> "Music",       color |-> 3, createdAt |-> 0],
     [id |-> <<"sports">>,      name |-> "Sports",      color |-> 4, createdAt |-> 0],
     [id |-> <<"cooking">>,     name |-> "Cooking",     color |-> 5, createdAt |-> 0] >>

Keys == {DYNAMIC_EMBEDS, CATEGORIES, "cliprack_embeds", "shared_content"}

\* ------------------------------------------------------------------------
\* Stored blobs: JSON.stringify / JSON.parse
\* ------------------------------------------------------------------------
NoBlob == [kind |-> "null"]
Corrupt == [kind |-> "corrupt"]

JSONstringify(v) == [kind |-> "json", value |-> v]

\* JSON.parse: the value, or a SyntaxError
JSONparse(blob) ==
  IF blob.kind = "json" THEN [threw |-> FALSE, value |-> blob.value]
  ELSE [threw |-> TRUE, value |-> <<>>]

EmptyStore == [k \in Keys |-> NoBlob]

\* ------------------------------------------------------------------------
\* lib/sharedStorage.ts
\* ------------------------------------------------------------------------
\* getItem: MMKV first, AsyncStorage when MMKV raises, null when both raise
sharedStorageGetItem(mmkv, async, key, mmkvOk, asyncOk) ==
  IF mmkvOk THEN mmkv[key]
  ELSE IF asyncOk THEN async[key]
  ELSE NoBlob

\* setItem without the fallback: raises when MMKV raises
sharedStorageSetItemNoFallback(mmkv, async, key, value, mmkvOk, asyncOk) ==
  IF mmkvOk THEN [mmkv |-> [mmkv EXCEPT ![key] = value], async |-> async, threw |-> FALSE]
  ELSE [mmkv |-> mmkv, async |-> async, threw |-> TRUE]

\* setItem: MMKV first, AsyncStorage when MMKV raises, raises when both do
sharedStorageSetItem(mmkv, async, key, value, mmkvOk, asyncOk) ==
  IF mmkvOk THEN [mmkv |-> [mmkv EXCEPT ![key] = value], async |-> async, threw |-> FALSE]
  ELSE IF asyncOk
  THEN [mmkv |-> mmkv, async |-> [async EXCEPT ![key] = value], threw |-> FALSE]
  ELSE [mmkv |-> mmkv, async |-> async, threw |-> TRUE]

\* removeItem: MMKV first, AsyncStorage when MMKV raises, raises when both do
sharedStorageRemoveItem(mmkv, async, key, mmkvOk, asyncOk) ==
  IF mmkvOk THEN [mmkv |-> [mmkv EXCEPT ![key] = NoBlob], async |-> async, threw |-> FALSE]
  ELSE IF asyncOk
  THEN [mmkv |-> mmkv, async |-> [async EXCEPT ![key] = NoBlob], threw |-> FALSE]
  ELSE [mmkv |-> mmkv, async |-> async, threw |-> TRUE]

\* ------------------------------------------------------------------------
\* Storage functions of the clips screen (app/(tabs)/embeds.tsx)
\* ------------------------------------------------------------------------
\* a stored value, or the fallback when there is no blob, the blob does not
\* parse or the read raises:   stored ? JSON.parse(stored) : fallback
LoadOr(blob, readOk, fallback, onError) ==
  IF ~readOk THEN onError
  ELSE IF blob.kind = "null" THEN fallback
  ELSE IF JSONparse(blob).threw THEN onError
  ELSE JSONparse(blob).value

saveDynamicEmbeds(async, embeds, ok) ==
  IF ok THEN [async EXCEPT ![DYNAMIC_EMBEDS] = JSONstringify(embeds)] ELSE async

loadDynamicEmbeds(async, ok) == LoadOr(async[DYNAMIC_EMBEDS], ok, <<>>, <<>>)

saveCategories(async, cats, ok) ==
  IF ok THEN [async EXCEPT ![CATEGORIES] = JSONstringify(cats)] ELSE async

loadCategories(async, ok) ==
  LoadOr(async[CATEGORIES], ok, DEFAULT_CATEGORIES, DEFAULT_CATEGORIES)

\* loadEmbedsFromStorage reading AsyncStorage whatever the storage type
loadEmbedsFromStorageAsyncOnly(storageType, mmkv, async, ok) ==
  LoadOr(async["cliprack_embeds"], ok, <<>>, <<>>)

loadEmbedsFromStorage(storageType, mmkv, async, ok) ==
  IF storageType = "mmkv" THEN LoadOr(mmkv["cliprack_embeds"], ok, <<>>, <<>>)
  ELSE LoadOr(async["cliprack_embeds"], ok, <<>>, <<>>)

loadCategoriesFromStorage(storageType, mmkv, async, ok) ==
  IF storageType = "mmkv" THEN LoadOr(mmkv["cliprack_categories"], ok, <<>>, <<>>)
  ELSE LoadOr(async["cliprack_categories"], ok, <<>>, <<>>)

\* ------------------------------------------------------------------------
\* Sequence helpers (Array.prototype.some; map is a function over the indices, filter is SelectSeq)
\* ------------------------------------------------------------------------
Range(s) == {s[i] : i \in 1..Len(s)}

\* embed.categories, undefined read as []
CategoriesOf(e) == IF "categories" \in DOMAIN e THEN e.categories ELSE <<>>

\* { ...embed, categories: cats }
WithCategories(e, cats) ==
  [f \in (DOMAIN e) \cup {"categories"} |-> IF f = "categories" THEN cats ELSE e[f]]

\* the duplicate check comparing the url with the id of the records
ExistsUrlComparesId(embeds, url) == \E i \in 1..Len(embeds) : embeds[i].id = url

\* embeds.some(e => e.url === url)
ExistsUrl(embeds, url) == \E i \in 1..Len(embeds) : embeds[i].url = url


\* ------------------------------------------------------------------------
\* Inputs of the clips-screen specification
\* ------------------------------------------------------------------------
Https == <<"https:", "/", "/">>

YtWatchA == Https \o <<"www.", "youtube.com", "/", "watch", "?", "v=", "A">>
YtBeA == Https \o <<"youtu.be", "/", "A">>
TtShortS == Https \o <<"vt.", "tiktok.com", "/", "S", "/">>
ExamplePage == Https \o <<"example.com", "/", "page">>

ShareUrls == {YtWatchA, YtBeA, TtShortS, ExamplePage}

\* the category hint of a share event: none, or a category id
ShareCategories == {Undefined, <<"favorites">>}

CategoryNames == {"Travel"}

NoShare == [ev |-> 0, url |-> Undefined, category |-> Undefined]
NoClip == Null

\* ------------------------------------------------------------------------
\* State
\* ------------------------------------------------------------------------
VARIABLES
  now,                    \* the last value Date.now() returned
  asyncStore,             \* AsyncStorage: key -> blob
  mmkvStore,              \* MMKV 'cliprack-shared-storage': key -> blob
  dynamicEmbeds,          \* React state of EmbedsScreen
  categories,
  isLoading,
  useMMKV,
  sharedContent,          \* state of the useSharedContent hook
  sharedData,             \* the sharedData URL parameter
  rendered,               \* the values the closures of the last render captured
  dirty,                  \* state set since the last render
  pendingEffects,         \* effects of the last render that have not run yet
  selectedClipForDetails, \* details editor
  selectedCategories,
  ext,                    \* the share extension
  shares,                 \* share events that have arrived
  outcomes,               \* what each processing of a share event did and showed
  faults,                 \* storage calls that may still raise
  last,                   \* the handler that completed last, when it is one observed
  pin,                    \* input and output of the pure-function specifications
  pout

appVars == <<dynamicEmbeds, categories, isLoading, useMMKV, sharedContent, sharedData,
             rendered, dirty, pendingEffects, selectedClipForDetails, selectedCategories>>
storeVars == <<asyncStore, mmkvStore>>
pureVars == <<pin, pout>>
mainVars == <<now, appVars, pureVars>>
vars == <<now, asyncStore, mmkvStore, dynamicEmbeds, categories, isLoading, useMMKV,
          sharedContent, sharedData, rendered, dirty, pendingEffects,
          selectedClipForDetails, selectedCategories, ext, shares, outcomes,
          faults, last, pin, pout>>

Snapshot(de, cats, sc, sd, mm) ==
  [dynamicEmbeds |-> de, categories |-> cats, sharedContent |-> sc, sharedData |-> sd,
   useMMKV |-> mm]

ExtClosed ==
  [open |-> FALSE, ev |-> NoShare, selectedCategory |-> Undefined, categories |-> <<>>,
   isLoading |-> FALSE]

\* all effects run after the first render
MountEffects == {"useSharedContent", "loadSavedData", "processSharedData",
                 "processSharedContent"}

\* the effects whose dependency list holds a state that was set
EffectsOf(d) ==
  (IF "useMMKV" \in d THEN {"loadSavedData"} ELSE {})
  \cup (IF d \cap {"sharedData", "dynamicEmbeds"} # {} THEN {"processSharedData"} ELSE {})
  \cup (IF d \cap {"sharedContent", "dynamicEmbeds"} # {} THEN {"processSharedContent"}
        ELSE {})

Op(name, arg) == [op |-> name, arg |-> arg]
Other == Op("other", <<>>)

\* one processing of a share event: what it did to the collection, the Alert
\* it showed and the requests it made to resolve the url
Outcome(path, content, outcome, alert) ==
  [path |-> path, ev |-> content.ev, url |-> content.url, outcome |-> outcome,
   alert |-> alert, requests |-> createEmbedRequests(content.url)]

\* the render and its effects are done: timers and user events are handled
\* after React has flushed both
Idle == pendingEffects = {} /\ dirty = {}

\* a storage call raises when its flag is FALSE, as long as calls may raise
Raised(flags) == Cardinality({i \in 1..Len(flags) : ~flags[i]})

Faulty(flags) ==
  /\ Raised(flags) <= faults
  /\ faults' = faults - Raised(flags)

\* useState initial values of EmbedsScreen and useSharedContent
MountState ==
  /\ dynamicEmbeds = <<>>
  /\ categories = <<>>
  /\ isLoading = TRUE
  /\ useMMKV = TRUE
  /\ sharedContent = <<>>
  /\ rendered = Snapshot(<<>>, <<>>, <<>>, sharedData, TRUE)
  /\ dirty = {}
  /\ pendingEffects = MountEffects
  /\ selectedClipForDetails = NoClip
  /\ selectedCategories = <<>>

Init ==
  /\ now = 0
  /\ asyncStore = EmptyStore
  /\ mmkvStore = EmptyStore
  /\ sharedData = NoShare
  /\ MountState
  /\ ext = ExtClosed
  /\ shares = 0
  /\ outcomes = {}
  /\ faults = 0
  /\ last = Op("init", <<>>)
  /\ pin = <<>>
  /\ pout = Null

\* ------------------------------------------------------------------------
\* Rendering
\* ------------------------------------------------------------------------
\* a render: the closures capture the current state, and the effects whose
\* dependencies were set are scheduled
Render ==
  /\ pendingEffects = {}
  /\ dirty # {}
  /\ rendered' = Snapshot(dynamicEmbeds, categories, sharedContent, sharedData, useMMKV)
  /\ pendingEffects' = EffectsOf(dirty)
  /\ dirty' = {}
  /\ last' = Other
  /\ UNCHANGED <<now, storeVars, outcomes, faults, pureVars, ext, shares, dynamicEmbeds,
                 categories, isLoading, useMMKV, sharedContent, sharedData,
                 selectedClipForDetails, selectedCategories>>

\* the app is closed and opened again: the screen mounts with its initial state
Remount ==
  /\ last # Op("mount", <<>>)
  /\ sharedData' = NoShare
  /\ dynamicEmbeds' = <<>>
  /\ categories' = <<>>
  /\ isLoading' = TRUE
  /\ useMMKV' = TRUE
  /\ sharedContent' = <<>>
  /\ rendered' = Snapshot(<<>>, <<>>, <<>>, NoShare, TRUE)
  /\ dirty' = {}
  /\ pendingEffects' = MountEffects
  /\ selectedClipForDetails' = NoClip
  /\ selectedCategories' = <<>>
  /\ last' = Op("mount", <<>>)
  /\ UNCHANGED <<now, storeVars, outcomes, faults, pureVars, ext, shares>>

\* ------------------------------------------------------------------------
\* hooks/useSharedContent.ts
\* ------------------------------------------------------------------------
loadSharedContent(mmkvOk, asyncOk) ==
  LET data == sharedStorageGetItem(mmkvStore, asyncStore, "shared_content", mmkvOk, asyncOk)
  IN  IF data.kind # "null" /\ ~JSONparse(data).threw
      THEN /\ sharedContent' = JSONparse(data).value
           /\ dirty' = dirty \cup {"sharedContent"}
      ELSE UNCHANGED <<sharedContent, dirty>>

\* the mount effect of the hook
UseSharedContentMount ==
  /\ "useSharedContent" \in pendingEffects
  /\ pendingEffects' = pendingEffects \ {"useSharedContent"}
  /\ \E mmkvOk, asyncOk \in BOOLEAN :
       /\ mmkvOk => asyncOk
       /\ Faulty(<<mmkvOk, asyncOk>>)
       /\ loadSharedContent(mmkvOk, asyncOk)
  /\ last' = Other
  /\ UNCHANGED <<now, storeVars, outcomes, pureVars, ext, shares, dynamicEmbeds,
                 categories, isLoading, useMMKV, sharedData, rendered,
                 selectedClipForDetails, selectedCategories>>

\* setInterval(..., 2000)
IntervalTick ==
  /\ Idle
  /\ \E mmkvOk, asyncOk \in BOOLEAN :
       /\ mmkvOk => asyncOk
       /\ Faulty(<<mmkvOk, asyncOk>>)
       /\ loadSharedContent(mmkvOk, asyncOk)
  /\ last' = Other
  /\ UNCHANGED <<now, storeVars, outcomes, pureVars, ext, shares, dynamicEmbeds,
                 categories, isLoading, useMMKV, sharedData, rendered, pendingEffects,
                 selectedClipForDetails, selectedCategories>>

\* addToCategory(content)
AddToCategory ==
  /\ shares < MaxShares
  /\ Idle
  /\ \E u \in ShareUrls, c \in ShareCategories, mmkvOk, asyncOk \in BOOLEAN :
       LET content == [ev |-> shares + 1, url |-> u, category |-> c]
           updatedContent == Append(rendered.sharedContent, content)
           w == sharedStorageSetItem(mmkvStore, asyncStore, "shared_content",
                                     JSONstringify(updatedContent), mmkvOk, asyncOk)
       IN  /\ mmkvOk => asyncOk
           /\ Faulty(<<mmkvOk, asyncOk>>)
           /\ mmkvStore' = w.mmkv
           /\ asyncStore' = w.async
           /\ IF w.threw THEN UNCHANGED <<sharedContent, dirty>>
              ELSE /\ sharedContent' = updatedContent
                   /\ dirty' = dirty \cup {"sharedContent"}
  /\ shares' = shares + 1
  /\ last' = Other
  /\ UNCHANGED <<now, outcomes, pureVars, ext, dynamicEmbeds, categories, isLoading,
                 useMMKV, sharedData, rendered, pendingEffects, selectedClipForDetails,
                 selectedCategories>>

\* ------------------------------------------------------------------------
\* Effects of EmbedsScreen
\* ------------------------------------------------------------------------
\* loadSavedData
LoadSavedData ==
  /\ "loadSavedData" \in pendingEffects
  /\ pendingEffects' = pendingEffects \ {"loadSavedData"}
  /\ \E okE, okC \in BOOLEAN :
       LET storageType == IF rendered.useMMKV THEN "mmkv" ELSE "async"
       IN  /\ Faulty(<<okE, okC>>)
           /\ dynamicEmbeds' = loadEmbedsFromStorage(storageType, mmkvStore, asyncStore, okE)
           /\ categories' = loadCategoriesFromStorage(storageType, mmkvStore, asyncStore, okC)
           /\ last' = Op("loadSavedData", <<okE, okC>>)
  /\ isLoading' = FALSE
  /\ dirty' = dirty \cup {"dynamicEmbeds", "categories"}
  /\ UNCHANGED <<now, storeVars, outcomes, pureVars, ext, shares, useMMKV, sharedContent,
                 sharedData, rendered, selectedClipForDetails, selectedCategories>>

\* what one share event does to the collection the effect's closure captured,
\* t being the value of Date.now() in the record's id (the clock is advanced
\* only when the record is kept, a discarded record's id being seen by nobody):
\* createEmbedFromUrl, the duplicate check, the append and the save
\* (the body shared by processSharedData and the loop of processSharedContent)
AddEmbed(content, embed, captured, async, ok) ==
  LET embedWithCategory ==
        WithCategories(embed, IF content.category # Undefined
                              THEN <<content.category>> ELSE <<>>)
      newEmbeds == Append(captured, embedWithCategory)
  IN  IF content.url = Undefined
      THEN [outcome |-> "nourl", set |-> FALSE, flags |-> <<>>, async |-> async]
      ELSE IF embed.type = "null"
      THEN [outcome |-> "unrecognized", set |-> FALSE, flags |-> <<>>, async |-> async]
      ELSE IF ExistsUrl(captured, embed.url)
      THEN [outcome |-> "duplicate", set |-> FALSE, flags |-> <<>>, async |-> async]
      ELSE [outcome |-> "added", set |-> TRUE, flags |-> <<ok>>,
            dynamicEmbeds |-> newEmbeds,
            async |-> saveDynamicEmbeds(async, newEmbeds, ok)]

\* an ingestion that reads the collection as it is now, not as captured
IngestIntoCurrent(content, captured, t, async, ok) ==
  AddEmbed(content, createEmbedFromUrl(content.url, t), dynamicEmbeds, async, ok)

Ingest(content, captured, t, async, ok) ==
  AddEmbed(content, createEmbedFromUrl(content.url, t), captured, async, ok)

\* the Alert of processSharedData for each outcome
AlertOfSharedData(outcome) ==
  IF outcome = "added" THEN "Saved!"
  ELSE IF outcome = "duplicate" THEN "Already Saved"
  ELSE "Error"

\* processSharedData: the share event of the sharedData URL parameter
ProcessSharedData ==
  /\ "processSharedData" \in pendingEffects
  /\ pendingEffects' = pendingEffects \ {"processSharedData"}
  /\ last' = Other
  /\ IF rendered.sharedData = NoShare
     THEN UNCHANGED <<now, dynamicEmbeds, dirty, asyncStore, outcomes, faults>>
     ELSE \E t \in now..MaxClock, ok \in BOOLEAN :
         \E content \in {rendered.sharedData} :
         \E r \in {Ingest(content, rendered.dynamicEmbeds, t, asyncStore, ok)} :
           /\ IF r.set THEN now' = t ELSE t = now /\ now' = now
           /\ r.set \/ ok
           /\ Faulty(r.flags)
           /\ dynamicEmbeds' = IF r.set THEN r.dynamicEmbeds ELSE dynamicEmbeds
           /\ dirty' = IF r.set THEN dirty \cup {"dynamicEmbeds"} ELSE dirty
           /\ asyncStore' = r.async
           /\ outcomes' = outcomes
                \cup {Outcome("url", content, r.outcome, AlertOfSharedData(r.outcome))}
  /\ UNCHANGED <<mmkvStore, pureVars, ext, shares, categories, isLoading, useMMKV,
                 sharedContent, sharedData, rendered, selectedClipForDetails,
                 selectedCategories>>

\* one iteration of the loop of processSharedContent, r being what it did
LoopStep(acc, content, r) ==
  [set |-> acc.set \/ r.set,
   flags |-> acc.flags \o r.flags,
   dynamicEmbeds |-> IF r.set THEN r.dynamicEmbeds ELSE acc.dynamicEmbeds,
   async |-> r.async,
   outcomes |-> acc.outcomes \cup {Outcome("polled", content, r.outcome, "none")}]

\* processSharedContent: the loop over the polled shared content.  Every
\* iteration reads the dynamicEmbeds the effect's closure captured; no branch
\* raises an Alert.
RECURSIVE SharedContentLoop(_, _, _, _, _, _)
SharedContentLoop(contents, i, captured, t, oks, acc) ==
  IF i > Len(contents) THEN acc
  ELSE
    SharedContentLoop(contents, i + 1, captured, t, oks,
      LoopStep(acc, contents[i], Ingest(contents[i], captured, t, acc.async, oks[i])))

ProcessSharedContent ==
  /\ "processSharedContent" \in pendingEffects
  /\ "processSharedData" \notin pendingEffects
  /\ pendingEffects' = pendingEffects \ {"processSharedContent"}
  /\ last' = Other
  /\ \E t \in now..MaxClock, oks \in [1..Len(rendered.sharedContent) -> BOOLEAN] :
       \E r \in {SharedContentLoop(rendered.sharedContent, 1, rendered.dynamicEmbeds, t, oks,
                                    [set |-> FALSE, flags |-> <<>>,
                                     dynamicEmbeds |-> dynamicEmbeds, async |-> asyncStore,
                                     outcomes |-> outcomes])} :
           /\ IF r.set THEN now' = t ELSE t = now /\ now' = now
           /\ Raised(r.flags) = Cardinality({i \in DOMAIN oks : ~oks[i]})
           /\ Faulty(r.flags)
           /\ dynamicEmbeds' = r.dynamicEmbeds
           /\ dirty' = IF r.set THEN dirty \cup {"dynamicEmbeds"} ELSE dirty
           /\ asyncStore' = r.async
           /\ outcomes' = r.outcomes
  /\ UNCHANGED <<mmkvStore, pureVars, ext, shares, categories, isLoading, useMMKV,
                 sharedContent, sharedData, rendered, selectedClipForDetails,
                 selectedCategories>>

\* the sharedData URL parameter is set by the navigation that opens the screen
ArriveSharedData ==
  /\ shares < MaxShares
  /\ \E u \in ShareUrls, c \in ShareCategories :
       sharedData' = [ev |-> shares + 1, url |-> u, category |-> c]
  /\ dirty' = dirty \cup {"sharedData"}
  /\ shares' = shares + 1
  /\ last' = Other
  /\ UNCHANGED <<now, storeVars, outcomes, faults, pureVars, ext, dynamicEmbeds, categories,
                 isLoading, useMMKV, sharedContent, rendered, pendingEffects,
                 selectedClipForDetails, selectedCategories>>

\* ------------------------------------------------------------------------
\* Handlers of EmbedsScreen (they read the state their render captured)
\* ------------------------------------------------------------------------
CategoryIds(cats) == {cats[i].id : i \in 1..Len(cats)}

\* the storage toggle
SetUseMMKV ==
  /\ Idle
  /\ useMMKV' = ~useMMKV
  /\ dirty' = dirty \cup {"useMMKV"}
  /\ last' = Other
  /\ UNCHANGED <<now, storeVars, outcomes, faults, pureVars, ext, shares, dynamicEmbeds,
                 categories, isLoading, sharedContent, sharedData, rendered,
                 pendingEffects, selectedClipForDetails, selectedCategories>>

\* the edit button of a clip card: new Set(embed.categories || [])
OpenClipDetails ==
  /\ Idle
  /\ \E i \in 1..Len(rendered.dynamicEmbeds) :
       /\ selectedClipForDetails' = rendered.dynamicEmbeds[i]
       /\ selectedCategories' = CategoriesOf(rendered.dynamicEmbeds[i])
  /\ last' = Other
  /\ UNCHANGED <<now, storeVars, outcomes, faults, pureVars, ext, shares, dynamicEmbeds,
                 categories, isLoading, useMMKV, sharedContent, sharedData, rendered,
                 dirty, pendingEffects>>

handleCategoryToggle ==
  /\ Idle
  /\ selectedClipForDetails # NoClip
  /\ \E c \in CategoryIds(rendered.categories) :
       selectedCategories' =
         IF c \in Range(selectedCategories)
         THEN SelectSeq(selectedCategories, LAMBDA x : x # c)
         ELSE Append(selectedCategories, c)
  /\ last' = Other
  /\ UNCHANGED <<now, storeVars, outcomes, faults, pureVars, ext, shares, dynamicEmbeds,
                 categories, isLoading, useMMKV, sharedContent, sharedData, rendered,
                 dirty, pendingEffects, selectedClipForDetails>>

\* deleteEmbed(embedId), called by handleDeleteClip
deleteEmbed ==
  /\ Idle
  /\ selectedClipForDetails # NoClip
  /\ \E ok \in BOOLEAN :
       LET embedId == selectedClipForDetails.id
           newEmbeds == SelectSeq(rendered.dynamicEmbeds, LAMBDA e : e.id # embedId)
       IN  /\ Faulty(<<ok>>)
           /\ dynamicEmbeds' = newEmbeds
           /\ asyncStore' = saveDynamicEmbeds(asyncStore, newEmbeds, ok)
           /\ last' = Op("deleteEmbed", embedId)
  /\ dirty' = dirty \cup {"dynamicEmbeds"}
  /\ selectedClipForDetails' = NoClip
  /\ UNCHANGED <<now, mmkvStore, outcomes, pureVars, ext, shares, categories,
                 isLoading, useMMKV, sharedContent, sharedData, rendered, pendingEffects,
                 selectedCategories>>

\* updateEmbedCategories(embedId, newCategories), called by handleSaveCategories
\* with the clip and the selection of the details editor
SaveCategories ==
  /\ selectedClipForDetails # NoClip
  /\ \E ok \in BOOLEAN :
       LET embedId == selectedClipForDetails.id
           newCategories == selectedCategories
           updatedEmbeds ==
             [i \in 1..Len(rendered.dynamicEmbeds) |->
                IF rendered.dynamicEmbeds[i].id = embedId
                THEN WithCategories(rendered.dynamicEmbeds[i], newCategories)
                ELSE rendered.dynamicEmbeds[i]]
       IN  /\ Faulty(<<ok>>)
           /\ dynamicEmbeds' = updatedEmbeds
           /\ asyncStore' = saveDynamicEmbeds(asyncStore, updatedEmbeds, ok)
  /\ last' = Other
  /\ dirty' = dirty \cup {"dynamicEmbeds"}
  /\ selectedClipForDetails' = NoClip
  /\ UNCHANGED <<now, mmkvStore, outcomes, pureVars, ext, shares, categories,
                 isLoading, useMMKV, sharedContent, sharedData, rendered, pendingEffects,
                 selectedCategories>>

updateEmbedCategories ==
  /\ Idle
  /\ SaveCategories

\* createCategory(name)
createCategory ==
  /\ Idle
  /\ Len(rendered.categories) < MaxCategories
  /\ \E name \in CategoryNames, t \in now..MaxClock, ok \in BOOLEAN :
       LET newCategory == [id |-> <<"category", t>>, name |-> name,
                           color |-> Len(rendered.categories) % CATEGORY_COLORS,
                           createdAt |-> t]
           updatedCategories == Append(rendered.categories, newCategory)
       IN  /\ Faulty(<<ok>>)
           /\ now' = t
           /\ categories' = updatedCategories
           /\ asyncStore' = saveCategories(asyncStore, updatedCategories, ok)
  /\ last' = Other
  /\ dirty' = dirty \cup {"categories"}
  /\ UNCHANGED <<mmkvStore, outcomes, pureVars, ext, shares, dynamicEmbeds,
                 isLoading, useMMKV, sharedContent, sharedData, rendered, pendingEffects,
                 selectedClipForDetails, selectedCategories>>

\* deleteCategory(categoryId): the two saves run in Promise.all and each
\* swallows its own failure
deleteCategory ==
  /\ Idle
  /\ \E categoryId \in CategoryIds(rendered.categories), okC, okE \in BOOLEAN :
       LET updatedEmbeds ==
             [i \in 1..Len(rendered.dynamicEmbeds) |->
                WithCategories(rendered.dynamicEmbeds[i],
                  SelectSeq(CategoriesOf(rendered.dynamicEmbeds[i]),
                            LAMBDA id : id # categoryId))]
           updatedCategories ==
             SelectSeq(rendered.categories, LAMBDA cat : cat.id # categoryId)
       IN  /\ Faulty(<<okC, okE>>)
           /\ categories' = updatedCategories
           /\ dynamicEmbeds' = updatedEmbeds
           /\ asyncStore' = saveDynamicEmbeds(saveCategories(asyncStore, updatedCategories, okC),
                                              updatedEmbeds, okE)
           /\ last' = Op("deleteCategory", categoryId)
  /\ dirty' = dirty \cup {"categories", "dynamicEmbeds"}
  /\ UNCHANGED <<now, mmkvStore, outcomes, pureVars, ext, shares, isLoading,
                 useMMKV, sharedContent, sharedData, rendered, pendingEffects,
                 selectedClipForDetails, selectedCategories>>

\* onRefresh (pull to refresh)
onRefresh ==
  /\ Idle
  /\ \E ok \in BOOLEAN :
       /\ Faulty(<<ok>>)
       /\ dynamicEmbeds' = loadDynamicEmbeds(asyncStore, ok)
       /\ last' = Op("onRefresh", <<ok>>)
  /\ dirty' = dirty \cup {"dynamicEmbeds"}
  /\ UNCHANGED <<now, storeVars, outcomes, pureVars, ext, shares, categories, isLoading,
                 useMMKV, sharedContent, sharedData, rendered, pendingEffects,
                 selectedClipForDetails, selectedCategories>>

\* ------------------------------------------------------------------------
\* app/share-extension.tsx
\* ------------------------------------------------------------------------
\* the OS opens the extension with the shared url
ExtOpen ==
  /\ ~ext.open
  /\ shares < MaxShares
  /\ \E u \in ShareUrls :
       ext' = [open |-> TRUE, ev |-> [ev |-> shares + 1, url |-> u, category |-> Undefined],
               selectedCategory |-> Undefined, categories |-> <<>>, isLoading |-> TRUE]
  /\ shares' = shares + 1
  /\ last' = Other
  /\ UNCHANGED <<mainVars, storeVars, outcomes, faults>>

\* the mount effect loadCategories of the extension
ExtLoadCategories ==
  /\ ext.open
  /\ ext.isLoading
  /\ \E mmkvOk, asyncOk \in BOOLEAN :
       LET stored == sharedStorageGetItem(mmkvStore, asyncStore, "cliprack_categories",
                                          mmkvOk, asyncOk)
       IN  /\ mmkvOk => asyncOk
           /\ Faulty(<<mmkvOk, asyncOk>>)
           /\ ext' = [ext EXCEPT
                        !.isLoading = FALSE,
                        !.categories = IF stored.kind # "null" /\ ~JSONparse(stored).threw
                                       THEN JSONparse(stored).value ELSE @]
  /\ last' = Other
  /\ UNCHANGED <<mainVars, storeVars, outcomes, shares>>

\* the category picker: "No category" or one of the loaded categories
ExtSelectCategory ==
  /\ ext.open
  /\ ~ext.isLoading
  /\ \E c \in {Undefined} \cup CategoryIds(ext.categories) :
       /\ c # ext.selectedCategory
       /\ ext' = [ext EXCEPT !.selectedCategory = c]
  /\ last' = Other
  /\ UNCHANGED <<mainVars, storeVars, outcomes, shares, faults>>

handleCancel ==
  /\ ext.open
  /\ ext' = ExtClosed
  /\ last' = Other
  /\ UNCHANGED <<mainVars, storeVars, outcomes, shares, faults>>

handleSave ==
  /\ ext.open
  /\ \E t \in now..MaxClock, getMmkvOk, getAsyncOk, setMmkvOk, setAsyncOk \in BOOLEAN :
     \E url \in {ext.ev.url} :
     \E embed \in {createEmbedFromUrl(url, t)} :
     \E stored \in {sharedStorageGetItem(mmkvStore, asyncStore, "cliprack_embeds",
                                         getMmkvOk, getAsyncOk)} :
     \E embeds \in {JSONparse(IF stored.kind = "null" THEN JSONstringify(<<>>) ELSE stored)} :
     \E newEmbeds \in {Append(embeds.value,
                              WithCategories(embed, IF ext.selectedCategory # Undefined
                                                    THEN <<ext.selectedCategory>>
                                                    ELSE <<>>))} :
     \E w \in {sharedStorageSetItem(mmkvStore, asyncStore, "cliprack_embeds",
                                    JSONstringify(newEmbeds), setMmkvOk, setAsyncOk)} :
       LET exists == ExistsUrl(embeds.value, embed.url)
           adds == /\ url # Undefined
                   /\ embed.type # "null"
                   /\ ~embeds.threw
                   /\ ~exists
                   /\ ~w.threw
           NoCall == getMmkvOk /\ getAsyncOk /\ setMmkvOk /\ setAsyncOk
           OnlyGet == (getMmkvOk => getAsyncOk) /\ setMmkvOk /\ setAsyncOk
           GetAndSet == (getMmkvOk => getAsyncOk) /\ (setMmkvOk => setAsyncOk)
           Keep(outcome, alert) ==
             /\ outcomes' = outcomes \cup {Outcome("extension", ext.ev, outcome, alert)}
             /\ UNCHANGED <<storeVars, ext>>
       IN  /\ Faulty(<<getMmkvOk, getAsyncOk, setMmkvOk, setAsyncOk>>)
           /\ IF adds THEN now' = t ELSE t = now /\ now' = now
           /\ IF url = Undefined THEN NoCall /\ Keep("nourl", "Error")
              ELSE IF embed.type = "null" THEN NoCall /\ Keep("unrecognized", "Error")
              ELSE IF embeds.threw THEN OnlyGet /\ Keep("failed", "Error")
              ELSE IF exists
              THEN /\ OnlyGet
                   /\ outcomes' = outcomes
                          \cup {Outcome("extension", ext.ev, "duplicate", "Already Saved")}
                   /\ ext' = ExtClosed
                   /\ UNCHANGED storeVars
              ELSE IF w.threw THEN GetAndSet /\ Keep("failed", "Error")
              ELSE /\ GetAndSet
                   /\ mmkvStore' = w.mmkv
                   /\ asyncStore' = w.async
                   /\ outcomes' = outcomes
                          \cup {Outcome("extension", ext.ev, "added", "Saved!")}
                   /\ ext' = ExtClosed
  /\ last' = Other
  /\ UNCHANGED <<appVars, pureVars, shares>>

\* ------------------------------------------------------------------------
\* Ingestion: the clips screen, the hook and the share extension, from empty
\* stores that do not fail
\* ------------------------------------------------------------------------
Next ==
  \/ Render
  \/ Remount
  \/ UseSharedContentMount
  \/ IntervalTick
  \/ AddToCategory
  \/ LoadSavedData
  \/ ProcessSharedData
  \/ ProcessSharedContent
  \/ ArriveSharedData
  \/ onRefresh
  \/ ExtOpen
  \/ ExtLoadCategories
  \/ handleCancel
  \/ handleSave

Spec == Init /\ [][Next]_vars

\* ------------------------------------------------------------------------
\* Category management on the clips screen, from the stores two saves of the
\* share extension leave
\* ------------------------------------------------------------------------
SavedClip(url, t, cats) == WithCategories(createEmbedFromUrl(url, t), cats)

SavedCollection == <<SavedClip(YtWatchA, 0, <<>>), SavedClip(TtShortS, 0, <<>>)>>

InitCategories ==
  /\ now = 0
  /\ asyncStore = EmptyStore
  /\ mmkvStore = [EmptyStore EXCEPT !["cliprack_embeds"] = JSONstringify(SavedCollection)]
  /\ sharedData = NoShare
  /\ MountState
  /\ ext = ExtClosed
  /\ shares = MaxShares
  /\ outcomes = {}
  /\ faults = MaxFaults
  /\ last = Op("init", <<>>)
  /\ pin = <<>>
  /\ pout = Null

NextCategories ==
  \/ Render
  \/ Remount
  \/ UseSharedContentMount
  \/ LoadSavedData
  \/ ProcessSharedData
  \/ ProcessSharedContent
  \/ SetUseMMKV
  \/ OpenClipDetails
  \/ handleCategoryToggle
  \/ deleteEmbed
  \/ updateEmbedCategories
  \/ createCategory
  \/ deleteCategory
  \/ onRefresh

SpecCategories == InitCategories /\ [][NextCategories]_vars

\* ------------------------------------------------------------------------
\* The share extension with its category picker, from the stores a
\* createCategory of the clips screen leaves
\* ------------------------------------------------------------------------
SavedCategories ==
  <<[id |-> <<"category", 0>>, name |-> "Travel", color |-> 0, createdAt |-> 0]>>

InitExtension ==
  /\ now = 0
  /\ asyncStore = [EmptyStore EXCEPT ![CATEGORIES] = JSONstringify(SavedCategories)]
  /\ mmkvStore = EmptyStore
  /\ sharedData = NoShare
  /\ MountState
  /\ ext = ExtClosed
  /\ shares = 0
  /\ outcomes = {}
  /\ faults = MaxFaults
  /\ last = Op("init", <<>>)
  /\ pin = <<>>
  /\ pout = Null

NextExtension ==
  \/ ExtOpen
  \/ ExtLoadCategories
  \/ ExtSelectCategory
  \/ handleCancel
  \/ handleSave
  \/ Render
  \/ Remount
  \/ UseSharedContentMount
  \/ LoadSavedData
  \/ ProcessSharedData
  \/ ProcessSharedContent

SpecExtension == InitExtension /\ [][NextExtension]_vars

\* ------------------------------------------------------------------------
\* Loading, from stores that hold no blob, a blob that does not parse, or a
\* saved collection under each key
\* ------------------------------------------------------------------------
EmbedBlobs == {NoBlob, Corrupt, JSONstringify(SavedCollection)}
CategoryBlobs == {NoBlob, Corrupt, JSONstringify(SavedCategories)}

NotRun == [type |-> "notrun"]

InitLoad ==
  /\ now = 0
  /\ \E e1, e2, e3 \in EmbedBlobs, c1, c2 \in CategoryBlobs :
       /\ asyncStore = [EmptyStore EXCEPT ![DYNAMIC_EMBEDS] = e1,
                                          !["cliprack_embeds"] = e2,
                                          ![CATEGORIES] = c1]
       /\ mmkvStore = [EmptyStore EXCEPT !["cliprack_embeds"] = e3,
                                         !["cliprack_categories"] = c2]
  /\ sharedData = NoShare
  /\ MountState
  /\ ext = ExtClosed
  /\ shares = MaxShares
  /\ outcomes = {}
  /\ faults = MaxFaults
  /\ last = Op("init", <<>>)
  /\ pin = <<>>
  /\ pout = NotRun

\* loadCategories() applied to the store (embeds.tsx defines it and calls it
\* nowhere; the earlier revision of the screen calls it at mount)
ApplyLoadCategories ==
  /\ pout.type = "notrun"
  /\ \E ok \in BOOLEAN :
       /\ Faulty(<<ok>>)
       /\ pin' = <<ok>>
       /\ pout' = [type |-> "loadCategories", value |-> loadCategories(asyncStore, ok)]
  /\ last' = Other
  /\ UNCHANGED <<now, storeVars, appVars, ext, shares, outcomes>>

NextLoad ==
  \/ Render
  \/ Remount
  \/ UseSharedContentMount
  \/ LoadSavedData
  \/ ProcessSharedData
  \/ ProcessSharedContent
  \/ SetUseMMKV
  \/ onRefresh
  \/ ApplyLoadCategories

SpecLoad == InitLoad /\ [][NextLoad]_vars

\* ------------------------------------------------------------------------
\* Classification, on urls built from one or two platform urls
\* ------------------------------------------------------------------------
UrlBodies ==
  { <<"www.", "instagram.com", "/", "p", "/", "B">>,
    <<"instagram.com", "/", "bob", "/", "reel", "/", "B">>,
    <<"www.", "youtube.com", "/", "watch", "?", "v=", "A">>,
    <<"youtu.be", "/", "A">>,
    <<"youtube.com", "/", "shorts", "/", "A">>,
    <<"www.", "tiktok.com", "/", "@", "bob", "/", "video", "/", "1">>,
    <<"vt.", "tiktok.com", "/", "S">>,
    <<"example.com", "/", "page">> }

\* a url, alone or with a second url in its query string
ClassifyUrls ==
  {Https \o b : b \in UrlBodies}
  \cup {Https \o b1 \o <<"?", "u=">> \o Https \o b2 : b1, b2 \in UrlBodies}

InitClassify ==
  /\ now = 0
  /\ asyncStore = EmptyStore
  /\ mmkvStore = EmptyStore
  /\ sharedData = NoShare
  /\ MountState
  /\ ext = ExtClosed
  /\ shares = MaxShares
  /\ outcomes = {}
  /\ faults = 0
  /\ last = Op("init", <<>>)
  /\ pin \in ClassifyUrls
  /\ pout = NotRun

Classify ==
  /\ pout.type = "notrun"
  /\ pout' = createEmbedFromUrl(pin, now)
  /\ UNCHANGED <<now, storeVars, appVars, ext, shares, outcomes, faults, last, pin>>

NextClassify == Classify

SpecClassify == InitClassify /\ [][NextClassify]_vars

\* ------------------------------------------------------------------------
\* Properties
\* ------------------------------------------------------------------------
\* the collection a blob holds (none when there is no blob or it does not parse)
BlobValue(blob) == IF blob.kind = "json" THEN blob.value ELSE <<>>

NoEqualUrls(embeds) ==
  \A i, j \in 1..Len(embeds) : i # j => embeds[i].url # embeds[j].url

\* C1: whatever share events the three ingestion paths have handled, and
\* however they interleave with renders, no embed collection (the in-memory
\* list, the blob the clips screen saves, the blob the share extension saves
\* in either backend) holds two records with equal url.
C1_NoTwoRecordsWithEqualUrl ==
  /\ NoEqualUrls(dynamicEmbeds)
  /\ NoEqualUrls(BlobValue(asyncStore[DYNAMIC_EMBEDS]))
  /\ NoEqualUrls(BlobValue(asyncStore["cliprack_embeds"]))
  /\ NoEqualUrls(BlobValue(mmkvStore["cliprack_embeds"]))

\* a share was rejected as a duplicate of a record the list holds, and the
\* saved blob holds two records
C1_Witness ==
  /\ \E o \in outcomes :
       /\ o.outcome = "duplicate"
       /\ \E i \in 1..Len(dynamicEmbeds) : dynamicEmbeds[i].url = o.url
  /\ Len(BlobValue(asyncStore[DYNAMIC_EMBEDS])) = 2

\* the platform and the platform's content id of a record
ContentKey(e) == <<e.type, IF e.type = "youtube" THEN e.videoId ELSE e.postId>>

OneRecordPerContent(embeds) ==
  \A i, j \in 1..Len(embeds) : i # j => ContentKey(embeds[i]) # ContentKey(embeds[j])

\* C2: two shares of the same content (same platform, same content id) that
\* arrive as different url strings leave one record for that content.
C2_OneRecordPerContent ==
  /\ OneRecordPerContent(dynamicEmbeds)
  /\ OneRecordPerContent(BlobValue(asyncStore[DYNAMIC_EMBEDS]))
  /\ OneRecordPerContent(BlobValue(mmkvStore["cliprack_embeds"]))

HasCategory(embeds, c) ==
  \E i \in 1..Len(embeds) : c \in Range(CategoriesOf(embeds[i]))

\* C3: once deleteCategory(c) has completed, c is in no record's category
\* list and not in the category list, in memory and in the saved blobs, also
\* when one of the two saves failed.
C3_DeleteCategoryAtomic ==
  last.op = "deleteCategory" =>
    /\ last.arg \notin CategoryIds(categories)
    /\ ~HasCategory(dynamicEmbeds, last.arg)
    /\ last.arg \notin CategoryIds(BlobValue(asyncStore[CATEGORIES]))
    /\ ~HasCategory(BlobValue(asyncStore[DYNAMIC_EMBEDS]), last.arg)

\* C4: when the clips screen has saved a collection (the saves succeeding),
\* the next load at mount, and the next pull-to-refresh, return the
\* collection last saved.
C4_SaveThenLoadIsIdentity ==
  (last.op \in {"loadSavedData", "onRefresh"} /\ asyncStore[DYNAMIC_EMBEDS].kind = "json")
    => dynamicEmbeds = asyncStore[DYNAMIC_EMBEDS].value

\* C5: every share event is consumed once: it is processed with one result
\* (added, duplicate or unrecognized) and never processed again.
C5_ConsumedOnce ==
  \A o1, o2 \in outcomes : o1.ev = o2.ev => o1.outcome = o2.outcome

\* C6: a share whose url matches no pattern adds no record and raises a
\* user-visible error, on every ingestion path.
C6_UnrecognizedRaisesError ==
  \A o \in outcomes : o.outcome = "unrecognized" => o.alert = "Error"

\* the url classifies as a TikTok short link
IsTikTokShort(url) ==
  /\ createEmbedFromUrl(url, 0).type = "tiktok"
  /\ createEmbedFromUrl(url, 0).isShortUrl = "true"

\* C7: for every TikTok short-form share, on every ingestion path, a
\* short-link resolution is attempted before the record is stored.
C7_ShortLinkResolutionAttempted ==
  \A o \in outcomes : IsTikTokShort(o.url) => o.requests # <<>>

\* the patterns a url matches, in the order Instagram, YouTube, TikTok
\* full-form, TikTok short-form
Matching(url) ==
  <<parseInstagramUrl(url).ok, parseYouTubeUrl(url).ok,
    fullTiktokRegex(url).ok, shortTiktokRegex(url).ok>>

\* the platform and the short-link flag of each pattern
PatternResult ==
  <<[type |-> "instagram", isShortUrl |-> "undefined"],
    [type |-> "youtube", isShortUrl |-> "undefined"],
    [type |-> "tiktok", isShortUrl |-> "undefined"],
    [type |-> "tiktok", isShortUrl |-> "true"]>>

\* C8: the record's platform and short-link flag are those of the earliest
\* pattern the url matches, in the order Instagram, YouTube, TikTok
\* full-form, TikTok short-form; a url that matches none gives no record.
C8_FirstMatchWins ==
  pout.type # "notrun" =>
    IF \E k \in 1..4 : Matching(pin)[k]
    THEN LET first == CHOOSE k \in 1..4 :
                        Matching(pin)[k] /\ \A m \in 1..(k - 1) : ~Matching(pin)[m]
         IN  /\ pout.type = PatternResult[first].type
             /\ pout.isShortUrl = PatternResult[first].isShortUrl
    ELSE pout = Null

\* a url that matches the YouTube and the TikTok short-form pattern has been
\* classified
C8_Witness ==
  /\ pout.type = "youtube"
  /\ Matching(pin)[2]
  /\ Matching(pin)[4]

\* the blob a load of the clips screen reads for a key
Backend(key) == IF rendered.useMMKV THEN mmkvStore[key] ELSE asyncStore[key]

\* no blob, a blob that does not parse, or a read that fails
Unreadable(blob, readOk) == ~readOk \/ blob.kind # "json"

\* what loadSavedData and onRefresh leave when what they read is unreadable
LoadsOfScreenFallBack ==
  /\ last.op = "loadSavedData" =>
       /\ isLoading = FALSE
       /\ Unreadable(Backend("cliprack_embeds"), last.arg[1]) => dynamicEmbeds = <<>>
       /\ Unreadable(Backend("cliprack_categories"), last.arg[2]) => categories = <<>>
  /\ last.op = "onRefresh" =>
       (Unreadable(asyncStore[DYNAMIC_EMBEDS], last.arg[1]) => dynamicEmbeds = <<>>)

C10_DuplicateSignalled ==
  \A o \in outcomes : o.outcome = "duplicate" => o.alert = "Already Saved"


\* ------------------------------------------------------------------------
\* Short-link resolution (resolveTikTokShortUrl and the createEmbedFromUrl
\* that calls it)
\* ------------------------------------------------------------------------
\* a rejected promise: fetch failing with a network error
Thrown == [kind |-> "throw"]

Returned(value) == [kind |-> "return", value |-> value]

TtFullB == Https \o <<"www.", "tiktok.com", "/", "@", "bob", "/", "video", "/", "1">>

\* what fetch(shortUrl, {method: 'HEAD', redirect: 'manual'}) may give
HeadResponses ==
  {Thrown}
  \cup {[kind |-> "response", status |-> s, location |-> l] :
          s \in {200, 302}, l \in {Undefined, TtFullB, ExamplePage}}

\* what fetch(shortUrl, {redirect: 'follow'}) may give
GetResponses(shortUrl) ==
  {Thrown} \cup {[kind |-> "response", url |-> u] : u \in {shortUrl, TtFullB, ExamplePage}}

\* the try block of resolveTikTokShortUrl
resolveTikTokShortUrlTry(shortUrl, head, get) ==
  IF head.kind = "throw" THEN Thrown
  ELSE IF head.status >= 300 /\ head.status < 400 /\ head.location # Undefined
  THEN Returned(head.location)
  ELSE IF get.kind = "throw" THEN Thrown
  ELSE IF get.url # shortUrl THEN Returned(get.url)
  ELSE Returned(Undefined)

\* resolveTikTokShortUrl without its catch block
resolveTikTokShortUrlNoCatch(shortUrl, head, get) ==
  resolveTikTokShortUrlTry(shortUrl, head, get)

resolveTikTokShortUrl(shortUrl, head, get) ==
  IF resolveTikTokShortUrlTry(shortUrl, head, get).kind = "throw"
  THEN Returned(Undefined)
  ELSE resolveTikTokShortUrlTry(shortUrl, head, get)

\* the TikTok branch for a short url, given what the resolver gave
ResolvedEmbed(url, t, tiktokData, resolved) ==
  LET resolvedData == IF resolved.value # Undefined THEN parseTikTokUrl(resolved.value)
                      ELSE NoMatch
      ok == resolvedData.ok /\ resolvedData.isShortUrl # "true"
      finalUrl == IF ok THEN resolved.value ELSE url
      finalPostId == IF ok THEN resolvedData.postId ELSE tiktokData.postId
      finalUsername == IF ok THEN resolvedData.username ELSE tiktokData.username
      isShortUrl == IF ok THEN "false" ELSE tiktokData.isShortUrl
  IN  [id |-> <<"tiktok", finalPostId, t>>,
       type |-> "tiktok",
       title |-> "TikTok Video",
       subtitle |-> IF finalUsername # Undefined THEN <<"@">> \o finalUsername
                    ELSE IF isShortUrl = "true" THEN <<"Short URL">>
                    ELSE finalPostId,
       url |-> finalUrl,
       videoId |-> Undefined,
       postId |-> finalPostId,
       username |-> finalUsername,
       isShortUrl |-> isShortUrl,
       createdAt |-> t]

\* createEmbedFromUrl with resolution: the Instagram, YouTube and full-form
\* TikTok branches are those of createEmbedFromUrl
createEmbedFromUrlResolving(url, t, head, get) ==
  IF parseInstagramUrl(url).ok \/ parseYouTubeUrl(url).ok \/ ~parseTikTokUrl(url).ok
     \/ parseTikTokUrl(url).isShortUrl # "true"
  THEN createEmbedFromUrl(url, t)
  ELSE IF resolveTikTokShortUrl(url, head, get).kind = "throw"
  THEN [type |-> "throw"]
  ELSE ResolvedEmbed(url, t, parseTikTokUrl(url), resolveTikTokShortUrl(url, head, get))

ResolveUrls == {Https \o b : b \in UrlBodies}

InitResolve ==
  /\ now = 0
  /\ asyncStore = EmptyStore
  /\ mmkvStore = EmptyStore
  /\ sharedData = NoShare
  /\ MountState
  /\ ext = ExtClosed
  /\ shares = MaxShares
  /\ outcomes = {}
  /\ faults = 0
  /\ last = Op("init", <<>>)
  /\ \E url \in ResolveUrls : \E head \in HeadResponses : \E get \in GetResponses(url) :
       pin = [url |-> url, head |-> head, get |-> get]
  /\ pout = NotRun

ClassifyResolving ==
  /\ pout.type = "notrun"
  /\ pout' = createEmbedFromUrlResolving(pin.url, now, pin.head, pin.get)
  /\ UNCHANGED <<now, storeVars, appVars, ext, shares, outcomes, faults, last, pin>>

NextResolve == ClassifyResolving

SpecResolve == InitResolve /\ [][NextResolve]_vars

\* C11: classifying a string and building its record never raises: every
\* call ends with a youtube, a tiktok or an instagram record or with null,
\* also when a request of the short-link resolution fails.
C11_ClassificationNeverRaises ==
  pout.type # "notrun" => pout.type \in {"youtube", "tiktok", "instagram", "null"}

\* a short link was classified while the second request of its resolution
\* failed with a network error, and a record keeping the short url was built
C11_Witness ==
  /\ pout.type = "tiktok"
  /\ pout.isShortUrl = "true"
  /\ pin.head.kind = "response"
  /\ pin.head.status = 200
  /\ pin.get.kind = "throw"

\* ------------------------------------------------------------------------
\* Classification of the url forms of YouTube and Instagram
\* ------------------------------------------------------------------------
ContentIds == {<<"A">>, <<"LV3m", "Chwu">>, <<"a-", "_9">>}

Schemes == {"https:", "http:"}

\* what may follow the id in a shared url
YouTubeSuffixes == {<<>>, <<"&", "t=1">>, <<"?", "si=x">>, <<"#", "t">>}

InstagramSuffixes == {<<>>, <<"?", "igsh=x">>, <<"/">>, <<"/", "?", "img_index=1">>}

Host(scheme, www, host) ==
  <<scheme, "/", "/">> \o (IF www THEN <<"www.">> ELSE <<>>) \o <<host>>

YouTubeInputs ==
  {[platform |-> "youtube", form |-> f, scheme |-> s, www |-> w, user |-> Undefined,
    id |-> id, suffix |-> x] :
     f \in {"watch", "shorts"}, s \in Schemes, w \in BOOLEAN, id \in ContentIds,
     x \in YouTubeSuffixes}
  \cup
  {[platform |-> "youtube", form |-> "youtu.be", scheme |-> s, www |-> FALSE,
    user |-> Undefined, id |-> id, suffix |-> x] :
     s \in Schemes, id \in ContentIds, x \in YouTubeSuffixes}

InstagramInputs ==
  {[platform |-> "instagram", form |-> f, scheme |-> s, www |-> w, user |-> u,
    id |-> id, suffix |-> x] :
     f \in {"p", "reel"}, s \in Schemes, w \in BOOLEAN, u \in {Undefined, <<"bob">>},
     id \in ContentIds, x \in InstagramSuffixes}

\* the url string of an input
FormUrl(in) ==
  IF in.form = "watch"
  THEN Host(in.scheme, in.www, "youtube.com") \o <<"/", "watch", "?", "v=">> \o in.id
       \o in.suffix
  ELSE IF in.form = "shorts"
  THEN Host(in.scheme, in.www, "youtube.com") \o <<"/", "shorts", "/">> \o in.id \o in.suffix
  ELSE IF in.form = "youtu.be"
  THEN Host(in.scheme, FALSE, "youtu.be") \o <<"/">> \o in.id \o in.suffix
  ELSE Host(in.scheme, in.www, "instagram.com")
       \o (IF in.user # Undefined THEN <<"/">> \o in.user ELSE <<>>)
       \o <<"/", in.form, "/">> \o in.id \o in.suffix

InitForms ==
  /\ now = 0
  /\ asyncStore = EmptyStore
  /\ mmkvStore = EmptyStore
  /\ sharedData = NoShare
  /\ MountState
  /\ ext = ExtClosed
  /\ shares = MaxShares
  /\ outcomes = {}
  /\ faults = 0
  /\ last = Op("init", <<>>)
  /\ pin \in YouTubeInputs \cup InstagramInputs
  /\ pout = NotRun

ClassifyForm ==
  /\ pout.type = "notrun"
  /\ pout' = createEmbedFromUrl(FormUrl(pin), now)
  /\ UNCHANGED <<now, storeVars, appVars, ext, shares, outcomes, faults, last, pin>>

NextForms == ClassifyForm

SpecForms == InitForms /\ [][NextForms]_vars

\* C12: for every video id, the watch?v=<id>, /shorts/<id> and youtu.be/<id>
\* forms classify as youtube with videoId the id of the input; the shorts
\* form differs from the others in the title only.
C12_YouTubeFormsGiveTheId ==
  (pout.type # "notrun" /\ pin.platform = "youtube") =>
    /\ pout.type = "youtube"
    /\ pout.videoId = pin.id
    /\ pout.title = (IF pin.form = "shorts" THEN "YouTube Short" ELSE "YouTube Video")
    /\ pout.subtitle = <<"Open ">> \o pin.id
    /\ pout.id = <<"youtube", pin.id, pout.createdAt>>
    /\ pout.url = FormUrl(pin)

\* a youtu.be link with a query string after a two-token id has been
\* classified
C12_Witness ==
  /\ pout.type = "youtube"
  /\ pin.form = "youtu.be"
  /\ pin.id = <<"LV3m", "Chwu">>
  /\ pin.suffix = <<"?", "si=x">>
  /\ pout.videoId = <<"LV3m", "Chwu">>

\* C13: for every Instagram reel input (with or without a username segment,
\* a query string or a trailing path) the stored url is
\* https://www.instagram.com/p/<id>/ for the extracted id and the title is
\* "Instagram Reel"; a /p/ input gets the title "Instagram Post".
C13_ReelStoredAsPostUrl ==
  (pout.type # "notrun" /\ pin.platform = "instagram") =>
    /\ pout.type = "instagram"
    /\ pout.postId = pin.id
    /\ pin.form = "reel" =>
         /\ pout.url = <<"https:", "/", "/", "www.", "instagram.com", "/", "p", "/">>
                       \o pout.postId \o <<"/">>
         /\ pout.title = "Instagram Reel"
    /\ pin.form = "p" => pout.title = "Instagram Post"

\* a reel link with a username segment and a trailing path, shared over
\* http without www, has been classified
C13_Witness ==
  /\ pout.type = "instagram"
  /\ pin.form = "reel"
  /\ pin.user = <<"bob">>
  /\ pin.scheme = "http:"
  /\ ~pin.www
  /\ pin.suffix = <<"/", "?", "img_index=1">>
  /\ pout.title = "Instagram Reel"

\* ------------------------------------------------------------------------
\* The displayed list (allEmbeds)
\* ------------------------------------------------------------------------
MaxDisplayed == 3

\* STARTER_EMBEDS, times being the three values Date.now() gave when the
\* module was loaded
STARTER_EMBEDS(times) ==
  << [id |-> <<"youtube-starter">>, type |-> "youtube", title |-> "YouTube Short",
      subtitle |-> <<"Open ", "LV3mChwupF8">>,
      url |-> Https \o <<"www.", "youtube.com", "/", "watch", "?", "v=", "LV3mChwupF8">>,
      videoId |-> <<"LV3mChwupF8">>, postId |-> Undefined, username |-> Undefined,
      isShortUrl |-> "undefined", createdAt |-> times[1]],
     [id |-> <<"tiktok-starter">>, type |-> "tiktok", title |-> "TikTok",
      subtitle |-> <<"@", "majasrecipes">>,
      url |-> Https \o <<"www.", "tiktok.com", "/", "@", "majasrecipes", "/", "video", "/",
                         "7498864456584285445">>,
      videoId |-> Undefined, postId |-> <<"7498864456584285445">>,
      username |-> <<"majasrecipes">>, isShortUrl |-> "undefined", createdAt |-> times[2]],
     [id |-> <<"instagram-starter">>, type |-> "instagram", title |-> "Instagram",
      subtitle |-> <<"DI66ERaTsm8">>,
      url |-> Https \o <<"www.", "instagram.com", "/", "p", "/", "DI66ERaTsm8", "/">>,
      videoId |-> Undefined, postId |-> <<"DI66ERaTsm8">>, username |-> Undefined,
      isShortUrl |-> "undefined", createdAt |-> times[3]] >>

\* embeds.some(e => e.id === id)
IsDynamic(embeds, id) == \E i \in 1..Len(embeds) : embeds[i].id = id

\* the comparator with the two createdAt swapped: oldest first
compareEmbedsOldestFirst(a, b, embeds) ==
  IF IsDynamic(embeds, a.id) /\ IsDynamic(embeds, b.id) THEN a.createdAt - b.createdAt
  ELSE IF IsDynamic(embeds, a.id) /\ ~IsDynamic(embeds, b.id) THEN -1
  ELSE IF ~IsDynamic(embeds, a.id) /\ IsDynamic(embeds, b.id) THEN 1
  ELSE a.createdAt - b.createdAt

\* the comparator given to sort
compareEmbeds(a, b, embeds) ==
  IF IsDynamic(embeds, a.id) /\ IsDynamic(embeds, b.id) THEN b.createdAt - a.createdAt
  ELSE IF IsDynamic(embeds, a.id) /\ ~IsDynamic(embeds, b.id) THEN -1
  ELSE IF ~IsDynamic(embeds, a.id) /\ IsDynamic(embeds, b.id) THEN 1
  ELSE b.createdAt - a.createdAt

\* Array.prototype.sort (stable): x goes before the first element it
\* compares less than
RECURSIVE InsertSorted(_, _, _)
InsertSorted(sorted, x, embeds) ==
  IF sorted = <<>> THEN <<x>>
  ELSE IF compareEmbeds(x, Head(sorted), embeds) < 0 THEN <<x>> \o sorted
  ELSE <<Head(sorted)>> \o InsertSorted(Tail(sorted), x, embeds)

RECURSIVE SortEmbeds(_, _, _)
SortEmbeds(list, n, embeds) ==
  IF n = 0 THEN <<>>
  ELSE InsertSorted(SortEmbeds(list, n - 1, embeds), list[n], embeds)

\* the filter of allEmbeds: by platform, then by category when one is chosen
PassesFilter(embed, selectedSites, filterByCategory) ==
  /\ embed.type \in selectedSites
  /\ filterByCategory # Undefined => filterByCategory \in Range(CategoriesOf(embed))

FilteredEmbeds(embeds, starters, selectedSites, filterByCategory) ==
  SelectSeq(embeds \o starters,
            LAMBDA embed : PassesFilter(embed, selectedSites, filterByCategory))

allEmbeds(embeds, starters, selectedSites, filterByCategory) ==
  SortEmbeds(FilteredEmbeds(embeds, starters, selectedSites, filterByCategory),
             Len(FilteredEmbeds(embeds, starters, selectedSites, filterByCategory)),
             embeds)

\* the records a collection may hold
DisplayClips ==
  {SavedClip(YtWatchA, t, c) : t \in 0..2, c \in {<<>>, << <<"favorites">> >>}}
  \cup {SavedClip(TtShortS, t, <<>>) : t \in 0..2}

DisplayCollections ==
  UNION {[1..n -> DisplayClips] : n \in 0..MaxDisplayed}

StarterTimes == {<<1, 1, 1>>, <<1, 2, 2>>}

SiteFilters == {{"youtube", "tiktok", "instagram"}, {"youtube", "instagram"}, {"tiktok"}, {}}

InitDisplay ==
  /\ now = 0
  /\ asyncStore = EmptyStore
  /\ mmkvStore = EmptyStore
  /\ sharedData = NoShare
  /\ MountState
  /\ ext = ExtClosed
  /\ shares = MaxShares
  /\ outcomes = {}
  /\ faults = 0
  /\ last = Op("init", <<>>)
  /\ \E embeds \in DisplayCollections : \E times \in StarterTimes :
     \E sites \in SiteFilters : \E category \in {Undefined, <<"favorites">>} :
       pin = [dynamicEmbeds |-> embeds, starters |-> STARTER_EMBEDS(times),
              selectedSites |-> sites, filterByCategory |-> category]
  /\ pout = NotRun

Display ==
  /\ pout.type = "notrun"
  /\ pout' = [type |-> "allEmbeds",
              value |-> allEmbeds(pin.dynamicEmbeds, pin.starters, pin.selectedSites,
                                  pin.filterByCategory)]
  /\ UNCHANGED <<now, storeVars, appVars, ext, shares, outcomes, faults, last, pin>>

NextDisplay == Display

SpecDisplay == InitDisplay /\ [][NextDisplay]_vars

\* C14: in the displayed list, for every collection and every platform and
\* category filter, every user-added record comes before every starter
\* record, and within each of the two groups createdAt never increases.
C14_AddedFirstNewestFirst ==
  pout.type = "allEmbeds" =>
    \A i, j \in 1..Len(pout.value) :
      i < j =>
        /\ ~(pout.value[i] \in Range(pin.starters) /\ pout.value[j] \in Range(pin.dynamicEmbeds))
        /\ (pout.value[i] \in Range(pin.starters)) = (pout.value[j] \in Range(pin.starters))
             => pout.value[i].createdAt >= pout.value[j].createdAt

\* a list of three added records created at increasing times and three
\* starters with two creation times has been displayed unfiltered
C14_Witness ==
  /\ pout.type = "allEmbeds"
  /\ Len(pout.value) = 6
  /\ pin.dynamicEmbeds[1].createdAt < pin.dynamicEmbeds[2].createdAt
  /\ pin.dynamicEmbeds[2].createdAt < pin.dynamicEmbeds[3].createdAt
  /\ pin.starters[1].createdAt < pin.starters[3].createdAt
  /\ pout.value[1] = pin.dynamicEmbeds[3]
  /\ pout.value[6] = pin.starters[1]

NoEqualIds(embeds) ==
  \A i, j \in 1..Len(embeds) : i # j => embeds[i].id # embeds[j].id

\* C15: in every reachable embed collection (the in-memory list and each
\* saved blob), whatever the clock values at which the records were created
\* and whichever paths created them, no two records have the same id.
C15_IdsUnique ==
  /\ NoEqualIds(dynamicEmbeds)
  /\ NoEqualIds(BlobValue(asyncStore[DYNAMIC_EMBEDS]))
  /\ NoEqualIds(BlobValue(asyncStore["cliprack_embeds"]))
  /\ NoEqualIds(BlobValue(mmkvStore["cliprack_embeds"]))

\* the urls of the records the share extension has saved
ExtensionSaved ==
  {o.url : o \in {x \in outcomes : x.path = "extension" /\ x.outcome = "added"}}

\* C16: a record the share extension has saved is in the clips screen's
\* collection after the screen's next load, and a pull-to-refresh of a
\* screen that shows it leaves it in the collection (no record being
\* deleted).
C16_ExtensionRecordDisplayed ==
  /\ last.op = "loadSavedData" =>
       \A u \in ExtensionSaved : ExistsUrl(dynamicEmbeds, u)
  /\ last.op = "onRefresh" =>
       \A u \in ExtensionSaved :
         ExistsUrl(rendered.dynamicEmbeds, u) => ExistsUrl(dynamicEmbeds, u)

\* ------------------------------------------------------------------------
\* The share extension, from the stores the clips screen leaves after it has
\* created a category and added two records
\* ------------------------------------------------------------------------
InitSharedStore ==
  /\ now = 0
  /\ asyncStore = [EmptyStore EXCEPT ![CATEGORIES] = JSONstringify(SavedCategories),
                                     ![DYNAMIC_EMBEDS] = JSONstringify(SavedCollection)]
  /\ mmkvStore = EmptyStore
  /\ sharedData = NoShare
  /\ MountState
  /\ ext = ExtClosed
  /\ shares = 0
  /\ outcomes = {}
  /\ faults = MaxFaults
  /\ last = Op("init", <<>>)
  /\ pin = <<>>
  /\ pout = Null

NextSharedStore ==
  \/ ExtOpen
  \/ ExtLoadCategories
  \/ ExtSelectCategory
  \/ handleCancel
  \/ handleSave
  \/ Render
  \/ Remount
  \/ UseSharedContentMount
  \/ LoadSavedData
  \/ ProcessSharedData
  \/ ProcessSharedContent

SpecSharedStore == InitSharedStore /\ [][NextSharedStore]_vars

\* C17: what the clips screen has saved is what the share extension reads: a
\* category the screen created is among the categories the extension's
\* picker has loaded, and the extension adds no record whose url a record
\* the screen saved already has.
C17_ExtensionReadsWhatScreenSaved ==
  /\ (ext.open /\ ~ext.isLoading) =>
       CategoryIds(BlobValue(asyncStore[CATEGORIES])) \subseteq CategoryIds(ext.categories)
  /\ \A o \in outcomes :
       (o.path = "extension" /\ o.outcome = "added") =>
         ~ExistsUrl(BlobValue(asyncStore[DYNAMIC_EMBEDS]), o.url)

\* ------------------------------------------------------------------------
\* The clips_effective view (AUTH_SETUP.md), over the clips and the
\* entitlements of one user.  The user's clips are counted per created_at
\* value: clips[t] is the number of rows of the user with created_at = t.
\* ------------------------------------------------------------------------
MaxClipTime == 3

ClipTimes == 1..MaxClipTime

ClipCounts == {0, 1, 2, 298, 299, 300}

\* LIMIT 1 OFFSET 299
CutoffOffset == 299

\* '1900-01-01'::timestamp, earlier than every created_at
Epoch1900 == 0

\* the number of rows with created_at >= t
RECURSIVE RowsFrom(_, _)
RowsFrom(clips, t) ==
  IF t > MaxClipTime THEN 0 ELSE clips[t] + RowsFrom(clips, t + 1)

\* SELECT created_at FROM clips c2 WHERE c2.user_id = c.user_id
\* ORDER BY created_at DESC LIMIT 1 OFFSET 299, inside COALESCE(..., '1900-01-01')
CutoffCreatedAt(clips) ==
  IF \E t \in ClipTimes : RowsFrom(clips, t) > CutoffOffset
  THEN CHOOSE t \in ClipTimes :
         /\ RowsFrom(clips, t) > CutoffOffset
         /\ \A u \in ClipTimes : RowsFrom(clips, u) > CutoffOffset => u <= t
  ELSE Epoch1900

\* LEFT JOIN entitlements e ON c.user_id = e.user_id: the is_premium of the
\* rows joined to a clip, NULL when the user has no entitlement row
JoinedPremium(entitlements) ==
  IF entitlements = <<>> THEN <<"null">> ELSE entitlements

\* WHERE e.is_premium = true OR c.created_at >= (cutoff)
ViewKeeps(isPremium, createdAt, clips) ==
  isPremium = "true" \/ createdAt >= CutoffCreatedAt(clips)

\* the rows of the view per created_at
clips_effective(clips, entitlements) ==
  [t \in ClipTimes |->
     clips[t] * Cardinality({i \in 1..Len(JoinedPremium(entitlements)) :
                               ViewKeeps(JoinedPremium(entitlements)[i], t, clips)})]

InitView ==
  /\ now = 0
  /\ asyncStore = EmptyStore
  /\ mmkvStore = EmptyStore
  /\ sharedData = NoShare
  /\ MountState
  /\ ext = ExtClosed
  /\ shares = MaxShares
  /\ outcomes = {}
  /\ faults = 0
  /\ last = Op("init", <<>>)
  /\ \E clips \in [ClipTimes -> ClipCounts] :
     \E entitlements \in {<<>>, <<"false">>, <<"true">>} :
       pin = [clips |-> clips, entitlements |-> entitlements]
  /\ pout = NotRun

SelectView ==
  /\ pout.type = "notrun"
  /\ pout' = [type |-> "clips_effective",
              value |-> clips_effective(pin.clips, pin.entitlements)]
  /\ UNCHANGED <<now, storeVars, appVars, ext, shares, outcomes, faults, last, pin>>

NextView == SelectView

SpecView == InitView /\ [][NextView]_vars

\* the n most recent rows, per created_at
MostRecent(clips, n) ==
  [t \in ClipTimes |->
     LET newer == RowsFrom(clips, t + 1)
     IN  IF newer >= n THEN 0
         ELSE IF clips[t] <= n - newer THEN clips[t] ELSE n - newer]

\* C18: for a non-premium user, whatever the number and the created_at of
\* their clips, the view returns at most 300 rows and they are the user's 300
\* most recent clips; for a premium user it returns every clip once.
C18_ViewLimitsFreeUsers ==
  pout.type = "clips_effective" =>
    IF pin.entitlements = <<"true">>
    THEN pout.value = pin.clips
    ELSE /\ RowsFrom(pout.value, 1) <= 300
         /\ pout.value = MostRecent(pin.clips, 300)

\* ------------------------------------------------------------------------
\* features/clips/useClips.ts and the ClipsScreen that uses it, for one
\* user.  pin is what the hook works on (the user's rows of the clips table
\* counted per created_at, the user's entitlement rows, the session's user);
\* pout is the hook's state and what the last call did and returned.
\* ------------------------------------------------------------------------
MaxAdds == 1

\* .limit(50)
FetchLimit == 50

NoClips == [t \in ClipTimes |-> 0]

\* the first n rows in created_at order, newest first, per created_at
FirstRows(rows, n) ==
  [t \in ClipTimes |->
     LET newer == RowsFrom(rows, t + 1)
     IN  IF newer >= n THEN 0
         ELSE IF rows[t] <= n - newer THEN rows[t] ELSE n - newer]

\* supabase.from('clips_effective').select('*')
\*   .order('created_at', { ascending: false }).limit(50)
\* the rows being those of the session's user, none without a session
selectClipsEffective(db) ==
  IF db.user = "null" THEN NoClips
  ELSE FirstRows(clips_effective(db.clips, db.entitlements), FetchLimit)

\* the hook's state after fetchClips
FetchedState(state, db, error) ==
  [state EXCEPT !.clips = IF error THEN NoClips ELSE selectClipsEffective(db),
                !.loading = FALSE]

InitClips ==
  /\ now = 0
  /\ asyncStore = EmptyStore
  /\ mmkvStore = EmptyStore
  /\ sharedData = NoShare
  /\ MountState
  /\ ext = ExtClosed
  /\ shares = MaxShares
  /\ outcomes = {}
  /\ faults = 0
  /\ last = Op("init", <<>>)
  /\ \E clips \in [ClipTimes -> ClipCounts] :
     \E entitlements \in {<<>>, <<"false">>, <<"true">>} :
     \E user \in {"null", "user"} :
       pin = [clips |-> clips, entitlements |-> entitlements, user |-> user]
  /\ pout = [type |-> "useClips", clips |-> NoClips, loading |-> TRUE, call |-> "none",
             error |-> FALSE, returned |-> NoClips, inserted |-> FALSE, adds |-> 0]

\* fetchClips: at mount, and whenever the component asks
fetchClips ==
  /\ \E error \in BOOLEAN :
       pout' = [FetchedState(pout, pin, error) EXCEPT
                  !.call = "fetchClips", !.error = error, !.inserted = FALSE,
                  !.returned = IF error THEN NoClips ELSE selectClipsEffective(pin)]
  /\ UNCHANGED <<now, storeVars, appVars, ext, shares, outcomes, faults, last, pin>>

\* getClips: the standalone fetch
getClips ==
  /\ \E error \in BOOLEAN :
       pout' = [pout EXCEPT
                  !.call = "getClips", !.error = error, !.inserted = FALSE,
                  !.returned = IF error THEN NoClips ELSE selectClipsEffective(pin)]
  /\ UNCHANGED <<now, storeVars, appVars, ext, shares, outcomes, faults, last, pin>>

\* the created_at the server may give a new row: DEFAULT NOW(), not earlier
\* than the rows the table holds
InsertTimes(clips) ==
  {t \in ClipTimes : \A u \in ClipTimes : clips[u] > 0 => u <= t}

\* the body of addClip: getUser, the insert, fetchClips, the result
AddClipBody(caller, t, insertError, fetchError) ==
  IF pin.user = "null" \/ insertError
  THEN /\ pout' = [pout EXCEPT !.call = caller, !.error = TRUE, !.inserted = FALSE,
                               !.adds = @ + 1]
       /\ pin' = pin
  ELSE /\ pin' = [pin EXCEPT !.clips[t] = @ + 1]
       /\ pout' = [FetchedState(pout, pin', fetchError) EXCEPT
                     !.call = caller, !.error = FALSE, !.inserted = TRUE, !.adds = @ + 1]

addClip ==
  /\ pout.adds < MaxAdds
  /\ \E t \in InsertTimes(pin.clips), insertError, fetchError \in BOOLEAN :
       AddClipBody("addClip", t, insertError, fetchError)
  /\ UNCHANGED <<now, storeVars, appVars, ext, shares, outcomes, faults, last>>

\* handleAddClip of ClipsScreen, url being a non-blank url; isPremium is the
\* entitlement the screen's useEntitlement holds: the user's entitlement row,
\* or { is_premium: false } before or instead of it
handleAddClip ==
  /\ pout.adds < MaxAdds
  /\ \E isPremium \in {FALSE, pin.user # "null" /\ pin.entitlements = <<"true">>} :
       IF ~isPremium
       THEN /\ pout' = [pout EXCEPT !.call = "handleAddClip", !.error = TRUE,
                                    !.inserted = FALSE, !.adds = @ + 1]
            /\ pin' = pin
       ELSE \E t \in InsertTimes(pin.clips), insertError, fetchError \in BOOLEAN :
              AddClipBody("handleAddClip", t, insertError, fetchError)
  /\ UNCHANGED <<now, storeVars, appVars, ext, shares, outcomes, faults, last>>

NextClips ==
  \/ fetchClips
  \/ getClips
  \/ addClip
  \/ handleAddClip

SpecClips == InitClips /\ [][NextClips]_vars

\* C19: after a successful fetchClips or getClips of a signed-in user, the
\* clips returned are all the clips the effective view exposes for the user:
\* the most recent 300 of a free user, every clip of a premium user.
C19_FetchReturnsTheView ==
  (pout.call \in {"fetchClips", "getClips"} /\ ~pout.error /\ pin.user # "null") =>
    /\ pout.returned = clips_effective(pin.clips, pin.entitlements)
    /\ pout.call = "fetchClips" => pout.clips = pout.returned

\* C20: addClip inserts a row only when the caller is signed in and their
\* entitlement has is_premium = true; a call by a non-premium or signed-out
\* user inserts nothing and returns an error.
C20_AddClipPremiumOnly ==
  pout.call = "addClip" =>
    IF pin.user # "null" /\ pin.entitlements = <<"true">>
    THEN TRUE
    ELSE ~pout.inserted /\ pout.error

\* ------------------------------------------------------------------------
\* Deleting a clip on the clips screen while share events arrive through
\* the sharedData URL parameter, from empty stores that do not fail
\* ------------------------------------------------------------------------
NextDelete ==
  \/ Render
  \/ UseSharedContentMount
  \/ LoadSavedData
  \/ ProcessSharedData
  \/ ProcessSharedContent
  \/ ArriveSharedData
  \/ OpenClipDetails
  \/ deleteEmbed

SpecDelete == Init /\ [][NextDelete]_vars

\* the urls a record of a shared url can hold
RecordUrls ==
  {createEmbedFromUrl(u, 0).url : u \in {s \in ShareUrls : createEmbedFromUrl(s, 0).type # "null"}}

\* a step brings a record with url u into a collection that had none
Reappears(u) == ~ExistsUrl(dynamicEmbeds, u) /\ ExistsUrl(dynamicEmbeds', u)

\* the step is the processing of a share event of u that was not saved before
NewShareSaved(u) ==
  \E o \in outcomes' \ outcomes : o.outcome = "added" /\ createEmbedFromUrl(o.url, 0).url = u

\* C21: deleting a record is permanent.  When deleteEmbed(id) has completed
\* the record is in neither the in-memory nor the saved collection and the
\* other records are as they were; and a record with a url the collection
\* does not hold (here records leave the collection by deleteEmbed only)
\* comes into it only by the processing of a share event that was not saved
\* before, never by the re-run of an effect on an event already processed.
C21_DeleteIsPermanent ==
  /\ [](last.op = "deleteEmbed" =>
          /\ dynamicEmbeds = SelectSeq(rendered.dynamicEmbeds, LAMBDA e : e.id # last.arg)
          /\ BlobValue(asyncStore[DYNAMIC_EMBEDS]) = dynamicEmbeds)
  /\ [][\A u \in RecordUrls : Reappears(u) => NewShareSaved(u)]_vars

\* ------------------------------------------------------------------------
\* A category edit in the details editor racing with a share event of the
\* sharedData URL parameter.  The passive effects of a render that no user
\* event caused run in a later task than the commit, so the Save press of the
\* editor can be handled between the render and its effects.
\* ------------------------------------------------------------------------
\* handleSaveCategories pressed while a render or its effects are pending
updateEmbedCategoriesBeforeEffects ==
  /\ ~Idle
  /\ SaveCategories

InitRace ==
  /\ now = 0
  /\ asyncStore = EmptyStore
  /\ mmkvStore = [EmptyStore EXCEPT !["cliprack_embeds"] = JSONstringify(SavedCollection)]
  /\ sharedData = NoShare
  /\ MountState
  /\ ext = ExtClosed
  /\ shares = MaxShares - 1
  /\ outcomes = {}
  /\ faults = 0
  /\ last = Op("init", <<>>)
  /\ pin = <<>>
  /\ pout = Null

NextRace ==
  \/ Render
  \/ UseSharedContentMount
  \/ LoadSavedData
  \/ ProcessSharedData
  \/ ProcessSharedContent
  \/ ArriveSharedData
  \/ createCategory
  \/ OpenClipDetails
  \/ handleCategoryToggle
  \/ updateEmbedCategories
  \/ updateEmbedCategoriesBeforeEffects

SpecRace == InitRace /\ [][NextRace]_vars

\* the processSharedData effect is about to ingest a share event into a
\* collection it captured before the collection was changed
StaleIngestionPending ==
  /\ "processSharedData" \in pendingEffects
  /\ rendered.sharedData # NoShare
  /\ rendered.dynamicEmbeds # dynamicEmbeds
  /\ Ingest(rendered.sharedData, rendered.dynamicEmbeds, now, asyncStore, TRUE).set

\* C22: a lost update is reachable and nothing rejects the stale write.  When
\* the ingestion of a share event runs on a collection captured before a
\* category edit of another record, it writes the captured collection plus
\* its record: the edited record is back to its captured categories in the
\* in-memory and in the saved collection.
C22_StaleIngestionOverwritesEdit ==
  [][(StaleIngestionPending /\ "processSharedData" \notin pendingEffects') =>
       /\ Len(dynamicEmbeds') = Len(rendered.dynamicEmbeds) + 1
       /\ \A i \in 1..Len(rendered.dynamicEmbeds) : dynamicEmbeds'[i] = rendered.dynamicEmbeds[i]
       /\ BlobValue(asyncStore'[DYNAMIC_EMBEDS]) = dynamicEmbeds']_vars

\* the share event has been ingested after the editor's Save: the selection
\* the editor saved is in no record, in memory and in the saved collection
C22_Witness ==
  /\ \E o \in outcomes : o.path = "url" /\ o.outcome = "added"
  /\ "processSharedData" \notin pendingEffects
  /\ selectedClipForDetails = NoClip
  /\ selectedCategories # <<>>
  /\ rendered.dynamicEmbeds # dynamicEmbeds
  /\ \A i \in 1..Len(dynamicEmbeds) : CategoriesOf(dynamicEmbeds[i]) # selectedCategories
  /\ BlobValue(asyncStore[DYNAMIC_EMBEDS]) = dynamicEmbeds

\* ------------------------------------------------------------------------
\* resolveTikTokShortUrl on its own: the requests it issues and what it
\* returns, the first response possibly redirecting to the short url itself
\* ------------------------------------------------------------------------
HeadRequest == [method |-> "HEAD", redirect |-> "manual"]
GetRequest == [method |-> "GET", redirect |-> "follow"]

\* the responses of the first request, a Location equal to the requested url
\* included
HeadResponsesOf(shortUrl) ==
  HeadResponses
  \cup {[kind |-> "response", status |-> 302, location |-> shortUrl]}

\* the first response carries a redirect Location header
HasRedirectLocation(head) ==
  /\ head.kind = "response"
  /\ head.status >= 300
  /\ head.status < 400
  /\ head.location # Undefined

\* the fetch calls of resolveTikTokShortUrl, in the order they are issued
resolveTikTokShortUrlRequests(shortUrl, head, get) ==
  IF head.kind = "throw" \/ HasRedirectLocation(head)
  THEN <<HeadRequest>>
  ELSE <<HeadRequest, GetRequest>>

InitResolver ==
  /\ now = 0
  /\ asyncStore = EmptyStore
  /\ mmkvStore = EmptyStore
  /\ sharedData = NoShare
  /\ MountState
  /\ ext = ExtClosed
  /\ shares = MaxShares
  /\ outcomes = {}
  /\ faults = 0
  /\ last = Op("init", <<>>)
  /\ \E url \in ResolveUrls : \E head \in HeadResponsesOf(url) : \E get \in GetResponses(url) :
       pin = [url |-> url, head |-> head, get |-> get]
  /\ pout = NotRun

Resolve ==
  /\ pout.type = "notrun"
  /\ pout' = [type |-> "resolveTikTokShortUrl",
              result |-> resolveTikTokShortUrl(pin.url, pin.head, pin.get),
              requests |-> resolveTikTokShortUrlRequests(pin.url, pin.head, pin.get)]
  /\ UNCHANGED <<now, storeVars, appVars, ext, shares, outcomes, faults, last, pin>>

NextResolver == Resolve

SpecResolver == InitResolver /\ [][NextResolver]_vars

\* C23: a resolution issues at most two requests in a fixed order: the
\* redirect-disabled request first, and the redirect-following request if
\* and only if the first produced no redirect Location header.
C23_RequestsOfAResolution ==
  pout.type = "resolveTikTokShortUrl" =>
    pout.requests = IF HasRedirectLocation(pin.head)
                    THEN <<HeadRequest>>
                    ELSE <<HeadRequest, GetRequest>>

\* C24: a url the resolver returns differs from the short url it was given,
\* and when neither request yields a different url the result is null.
C24_ResolvedUrlDiffers ==
  pout.type = "resolveTikTokShortUrl" =>
    /\ pout.result.kind = "return"
    /\ pout.result.value # pin.url
    /\ ( /\ ~(HasRedirectLocation(pin.head) /\ pin.head.location # pin.url)
         /\ ~(pin.get.kind = "response" /\ pin.get.url # pin.url) )
       => pout.result.value = Undefined

\* ------------------------------------------------------------------------
\* The polling of hooks/useSharedContent.ts: the mount effect, the interval
\* and its teardown, the loads being asynchronous.  pin is the life of the
\* hook (mounted or not, the interval, the loads in flight, how the last
\* load ended); pout counts the ticks and the loads started.
\* ------------------------------------------------------------------------
MaxTicks == 3

SharedContentBlobs == {NoBlob, Corrupt, JSONstringify(<<>>)}

InitPolling ==
  /\ now = 0
  /\ asyncStore = EmptyStore
  /\ \E b \in SharedContentBlobs : mmkvStore = [EmptyStore EXCEPT !["shared_content"] = b]
  /\ sharedData = NoShare
  /\ MountState
  /\ ext = ExtClosed
  /\ shares = MaxShares
  /\ outcomes = {}
  /\ faults = MaxFaults
  /\ last = Op("init", <<>>)
  /\ pin = [phase |-> "rendered", interval |-> FALSE, inflight |-> 0, lastLoad |-> "none"]
  /\ pout = [type |-> "useSharedContent", event |-> "render", ticks |-> 0, started |-> 0]

\* the interval callback with a backoff: no load while one is in flight or
\* after one failed
IntervalCallbackBacksOff(hook) == hook.inflight = 0 /\ hook.lastLoad # "failed"

\* the interval callback: () => { loadSharedContent() }
IntervalCallbackLoads(hook) == TRUE

\* the effect of the hook: loadSharedContent() and setInterval(..., 2000)
HookMount ==
  /\ pin.phase = "rendered"
  /\ pin' = [pin EXCEPT !.phase = "mounted", !.interval = TRUE, !.inflight = @ + 1]
  /\ pout' = [pout EXCEPT !.event = "mount", !.started = @ + 1]
  /\ UNCHANGED <<now, storeVars, appVars, ext, shares, outcomes, faults, last>>

\* the timer fires
HookTick ==
  /\ pin.interval
  /\ pout.ticks < MaxTicks
  /\ pin' = [pin EXCEPT !.inflight = IF IntervalCallbackLoads(pin) THEN @ + 1 ELSE @]
  /\ pout' = [pout EXCEPT !.event = "tick", !.ticks = @ + 1,
                          !.started = IF IntervalCallbackLoads(pin) THEN @ + 1 ELSE @]
  /\ UNCHANGED <<now, storeVars, appVars, ext, shares, outcomes, faults, last>>

\* a load in flight ends: loadSharedContent from its await on
HookLoadEnds ==
  /\ pin.inflight > 0
  /\ \E mmkvOk, asyncOk \in BOOLEAN :
     \E data \in {sharedStorageGetItem(mmkvStore, asyncStore, "shared_content",
                                       mmkvOk, asyncOk)} :
       /\ mmkvOk => asyncOk
       /\ Faulty(<<mmkvOk, asyncOk>>)
       /\ loadSharedContent(mmkvOk, asyncOk)
       /\ pin' = [pin EXCEPT !.inflight = @ - 1,
                             !.lastLoad = IF data.kind # "null" /\ JSONparse(data).threw
                                          THEN "failed" ELSE "ok"]
  /\ pout' = [pout EXCEPT !.event = "loadEnds"]
  /\ UNCHANGED <<now, storeVars, ext, shares, outcomes, last, dynamicEmbeds, categories,
                 isLoading, useMMKV, sharedData, rendered, pendingEffects,
                 selectedClipForDetails, selectedCategories>>

\* teardown: clearInterval(interval)
HookUnmount ==
  /\ pin.phase = "mounted"
  /\ pin' = [pin EXCEPT !.phase = "unmounted", !.interval = FALSE]
  /\ pout' = [pout EXCEPT !.event = "unmount"]
  /\ UNCHANGED <<now, storeVars, appVars, ext, shares, outcomes, faults, last>>

NextPolling ==
  \/ HookMount
  \/ HookTick
  \/ HookLoadEnds
  \/ HookUnmount

SpecPolling == InitPolling /\ [][NextPolling]_vars

\* C25: a load is started by the mount and by every tick of the interval,
\* whether or not the previous load has ended or failed; the interval runs
\* while the hook is mounted, and after teardown no load is started.
C25_LoadAtMountAndEveryTick ==
  [][/\ pout'.event \in {"mount", "tick"} => pout'.started = pout.started + 1
     /\ pin.phase = "unmounted" => pout'.started = pout.started
     /\ pin'.interval = (pin'.phase = "mounted")]_vars

\* a tick started a load while an earlier load was in flight and the last
\* load that ended had failed
C25_Witness ==
  /\ pout.event = "tick"
  /\ pin.inflight >= 2
  /\ pin.lastLoad = "failed"
  /\ pout.started = pout.ticks + 1

\* ------------------------------------------------------------------------
\* lib/sharedStorage.ts on its own: getItem, setItem and removeItem called in
\* any order on two keys, each backend call raising or not.  pin holds, per
\* key, the value of the last setItem that returned, as long as no setItem
\* or removeItem of the key was called since; pout is the last call.
\* ------------------------------------------------------------------------
StorageKeys == {"shared_content", "cliprack_embeds"}

StorageValues == {JSONstringify(<<>>), JSONstringify(SavedCollection)}

NotWritten == [written |-> FALSE]

Written(value) == [written |-> TRUE, value |-> value]

\* the calls of one operation that may raise: AsyncStorage is called only
\* when MMKV raised
BackendFlags == {f \in [mmkvOk : BOOLEAN, asyncOk : BOOLEAN] : f.mmkvOk => f.asyncOk}

StorageCall(name, key, value, f, threw, result) ==
  [type |-> name, key |-> key, value |-> value, mmkvOk |-> f.mmkvOk, asyncOk |-> f.asyncOk,
   threw |-> threw, result |-> result]

InitStorage ==
  /\ now = 0
  /\ asyncStore = EmptyStore
  /\ mmkvStore = EmptyStore
  /\ sharedData = NoShare
  /\ MountState
  /\ ext = ExtClosed
  /\ shares = MaxShares
  /\ outcomes = {}
  /\ faults = 0
  /\ last = Op("init", <<>>)
  /\ pin = [k \in StorageKeys |-> NotWritten]
  /\ pout = NotRun

StorageGetItem ==
  /\ \E key \in StorageKeys, f \in BackendFlags :
       pout' = StorageCall("getItem", key, NoBlob, f, FALSE,
                           sharedStorageGetItem(mmkvStore, asyncStore, key, f.mmkvOk, f.asyncOk))
  /\ UNCHANGED <<now, storeVars, appVars, ext, shares, outcomes, faults, last, pin>>

StorageSetItem ==
  /\ \E key \in StorageKeys, value \in StorageValues, f \in BackendFlags :
     \E w \in {sharedStorageSetItem(mmkvStore, asyncStore, key, value, f.mmkvOk, f.asyncOk)} :
       /\ mmkvStore' = w.mmkv
       /\ asyncStore' = w.async
       /\ pin' = [pin EXCEPT ![key] = IF w.threw THEN NotWritten ELSE Written(value)]
       /\ pout' = StorageCall("setItem", key, value, f, w.threw, NoBlob)
  /\ UNCHANGED <<now, appVars, ext, shares, outcomes, faults, last>>

StorageRemoveItem ==
  /\ \E key \in StorageKeys, f \in BackendFlags :
     \E w \in {sharedStorageRemoveItem(mmkvStore, asyncStore, key, f.mmkvOk, f.asyncOk)} :
       /\ mmkvStore' = w.mmkv
       /\ asyncStore' = w.async
       /\ pin' = [pin EXCEPT ![key] = NotWritten]
       /\ pout' = StorageCall("removeItem", key, NoBlob, f, w.threw, NoBlob)
  /\ UNCHANGED <<now, appVars, ext, shares, outcomes, faults, last>>

NextStorage ==
  \/ StorageGetItem
  \/ StorageSetItem
  \/ StorageRemoveItem

SpecStorage == InitStorage /\ [][NextStorage]_vars

\* what a setItem or removeItem has to leave under the key
Stored(call) == IF call.type = "setItem" THEN call.value ELSE NoBlob

\* C26: the fallback from MMKV to AsyncStorage is taken only when the MMKV
\* call raises.  setItem and removeItem act on MMKV alone when MMKV accepts,
\* on AsyncStorage alone when MMKV raises and AsyncStorage accepts, and
\* raise, changing nothing, only when both raise; getItem never raises and
\* returns the MMKV value, the AsyncStorage value when MMKV raises, and null
\* when both raise.
C26_FallbackOnlyWhenMMKVRaises ==
  [][LET call == pout'
     IN  /\ call.type = "getItem" =>
              /\ ~call.threw
              /\ call.result = IF call.mmkvOk THEN mmkvStore[call.key]
                               ELSE IF call.asyncOk THEN asyncStore[call.key]
                               ELSE NoBlob
         /\ call.type \in {"setItem", "removeItem"} =>
              /\ call.threw = (~call.mmkvOk /\ ~call.asyncOk)
              /\ call.mmkvOk =>
                   /\ mmkvStore' = [mmkvStore EXCEPT ![call.key] = Stored(call)]
                   /\ asyncStore' = asyncStore
              /\ (~call.mmkvOk /\ call.asyncOk) =>
                   /\ mmkvStore' = mmkvStore
                   /\ asyncStore' = [asyncStore EXCEPT ![call.key] = Stored(call)]
              /\ call.threw => mmkvStore' = mmkvStore /\ asyncStore' = asyncStore]_vars

\* a setItem was accepted by AsyncStorage after MMKV raised
C26_Witness ==
  /\ pout.type = "setItem"
  /\ ~pout.mmkvOk
  /\ pout.asyncOk
  /\ ~pout.threw
  /\ asyncStore[pout.key] = pout.value
  /\ mmkvStore[pout.key] # pout.value

\* C28: read-your-writes.  When setItem(k, v) has returned and neither
\* setItem nor removeItem of k was called since, getItem(k) returns v,
\* whichever backend took the write and whether or not an MMKV call failed.
\* (a getItem during which both backends raise is left out)
C28_ReadYourWrites ==
  (pout.type = "getItem" /\ pin[pout.key].written /\ (pout.mmkvOk \/ pout.asyncOk))
    => pout.result = pin[pout.key].value

\* C27: referential integrity of category tags.  In every state every
\* category id in a record's category list is the id of a category of the
\* category collection, whatever createCategory, deleteCategory and saves of
\* the details editor (opened before or after a deletion) have been done.
C27_CategoryTagsReferToCategories ==
  \A i \in 1..Len(dynamicEmbeds) :
    Range(CategoriesOf(dynamicEmbeds[i])) \subseteq CategoryIds(categories)

\* the outcomes of the processing of share event ev on the URL-parameter path
UrlOutcomes(ev) == {o \in outcomes : o.path = "url" /\ o.ev = ev}

\* C29: on the URL-parameter path a share event produces exactly one outcome
\* message: once processed, one Alert has been shown for it; "Saved!" for a
\* content never comes with "Already Saved" for the same event.
C29_OneOutcomeMessagePerShare ==
  \A ev \in 1..MaxShares :
    /\ Cardinality({o.alert : o \in UrlOutcomes(ev)}) <= 1
    /\ (\E o \in UrlOutcomes(ev) : o.alert = "Saved!")
         => ~(\E o \in UrlOutcomes(ev) : o.alert = "Already Saved")

\* ------------------------------------------------------------------------
\* features/auth/useEntitlement.ts in a component that signs users in and
\* out.  pin is the session (the authenticated user, "null" for none) and
\* the fetch in flight (the user whose row the query asks for); pout is the
\* hook's state and the last event.
\* ------------------------------------------------------------------------
Users == {"premium", "free", "norow"}

\* the entitlements table: is_premium of the user's row, no row for "norow"
EntitlementRows ==
  [u \in Users |-> IF u = "premium" THEN <<"true">>
                   ELSE IF u = "free" THEN <<"false">> ELSE <<>>]

\* data ?? { is_premium: false }, data being the row .single() gives or null
EntitlementOf(u) == u \in Users /\ EntitlementRows[u] = <<"true">>

HookEvent(state, event) == [state EXCEPT !.event = event]

InitEntitlement ==
  /\ now = 0
  /\ asyncStore = EmptyStore
  /\ mmkvStore = EmptyStore
  /\ sharedData = NoShare
  /\ MountState
  /\ ext = ExtClosed
  /\ shares = MaxShares
  /\ outcomes = {}
  /\ faults = 0
  /\ last = Op("init", <<>>)
  /\ \E u \in Users \cup {"null"} : pin = [user |-> u, query |-> "none", effect |-> TRUE]
  /\ pout = [type |-> "useEntitlement", is_premium |-> FALSE, loading |-> TRUE,
             event |-> "render", returned |-> FALSE]

\* fetchEntitlement up to its query
FetchEntitlementStarts(event) ==
  /\ pin.query = "none"
  /\ IF pin.user = "null"
     THEN /\ pout' = [HookEvent(pout, event) EXCEPT !.is_premium = FALSE, !.loading = FALSE]
          /\ pin' = [pin EXCEPT !.effect = FALSE]
     ELSE /\ pout' = [HookEvent(pout, event) EXCEPT !.loading = TRUE]
          /\ pin' = [pin EXCEPT !.query = pin.user, !.effect = FALSE]
  /\ UNCHANGED <<now, storeVars, appVars, ext, shares, outcomes, faults, last>>

\* useEffect(() => { fetchEntitlement() }, [])
FetchEntitlementAtMount ==
  /\ pin.effect
  /\ FetchEntitlementStarts("fetchAtMount")

\* refetch, which the hook returns to its component
RefetchEntitlement ==
  /\ ~pin.effect
  /\ FetchEntitlementStarts("refetch")

\* the query answers: the row, or no row, or an error
FetchEntitlementEnds ==
  /\ pin.query # "none"
  /\ \E failed \in BOOLEAN :
       pout' = [HookEvent(pout, IF failed THEN "fetchFailed" ELSE "fetchSucceeded") EXCEPT
                  !.is_premium = IF failed THEN FALSE ELSE EntitlementOf(pin.query),
                  !.loading = FALSE]
  /\ pin' = [pin EXCEPT !.query = "none"]
  /\ UNCHANGED <<now, storeVars, appVars, ext, shares, outcomes, faults, last>>

\* getEntitlement(): the one-time check
getEntitlement ==
  /\ \E failed \in BOOLEAN :
       pout' = [HookEvent(pout, "getEntitlement") EXCEPT
                  !.returned = IF failed \/ pin.user = "null" THEN FALSE
                               ELSE EntitlementOf(pin.user)]
  /\ UNCHANGED <<now, storeVars, appVars, ext, shares, outcomes, faults, last, pin>>

\* signIn of useEmailAuth
SignIn ==
  /\ pin.user = "null"
  /\ \E u \in Users : pin' = [pin EXCEPT !.user = u]
  /\ pout' = HookEvent(pout, "signIn")
  /\ UNCHANGED <<now, storeVars, appVars, ext, shares, outcomes, faults, last>>

\* signOut of useEmailAuth
SignOut ==
  /\ pin.user # "null"
  /\ pin' = [pin EXCEPT !.user = "null"]
  /\ pout' = HookEvent(pout, "signOut")
  /\ UNCHANGED <<now, storeVars, appVars, ext, shares, outcomes, faults, last>>

\* the component of the hook is replaced (TabTwoScreen swaps AuthScreen and
\* ClipsScreen when the session changes): a new hook with its initial state
EntitlementRemount ==
  /\ pout.event \in {"signIn", "signOut"}
  /\ pin' = [pin EXCEPT !.query = "none", !.effect = TRUE]
  /\ pout' = [pout EXCEPT !.is_premium = FALSE, !.loading = TRUE, !.event = "render"]
  /\ UNCHANGED <<now, storeVars, appVars, ext, shares, outcomes, faults, last>>

NextEntitlement ==
  \/ FetchEntitlementAtMount
  \/ RefetchEntitlement
  \/ FetchEntitlementEnds
  \/ getEntitlement
  \/ SignIn
  \/ SignOut
  \/ EntitlementRemount

SpecEntitlement == InitEntitlement /\ [][NextEntitlement]_vars

\* C30: the premium flag fails closed.  In every state entitlement.is_premium
\* is true only if the user now signed in has an entitlement row with
\* is_premium = true; it is false with nobody signed in and after a failed
\* fetch; getEntitlement returns true only for such a user.
C30_PremiumFailsClosed ==
  /\ pout.is_premium => EntitlementOf(pin.user)
  /\ pout.event = "fetchFailed" => ~pout.is_premium
  /\ (pout.event = "getEntitlement" /\ pout.returned) => EntitlementOf(pin.user)
====
